---------------------------- MODULE Spec2Model ----------------------------
(***************************************************************************)
(* State-machine model of the capstone_news publishing platform: the role  *)
(* checks (api/permissions.py, news/views.py), the article lifecycle       *)
(* (api/views.py, news/views.py), the subscription registry and the        *)
(* approval notification dispatcher (news/services.py).                    *)
(*                                                                         *)
(* Text values (role attribute, e-mail address) are sequences of code      *)
(* points, so that strip(), lower() and sorted() are computed as Python    *)
(* computes them.  Nullable columns hold None (the empty tuple) or         *)
(* Some(x) (a one-element tuple).                                          *)
(***************************************************************************)
EXTENDS Integers, Sequences, FiniteSets, TLC

VARIABLES
    users,        \* accounts_customuser rows: pk -> [role, groups, email]
    articles,     \* news_article rows: pk -> record (domain = stored pks)
    next_pk,      \* next auto-increment pk of news_article
    pub_subs,     \* news_publishersubscription rows: <<publisher, reader>>
    j_subs,       \* news_journalistsubscription rows: <<journalist, reader>>
    newsletters,  \* news_newsletter rows: pk -> [author, title, articles]
    next_nl,      \* next auto-increment pk of news_newsletter
    now,          \* timezone.now()
    inflight,     \* the approve request between its save() and its send_mail loop
    sent,         \* the messages the current/last request handed to send_mail
    resp,         \* the request last received and the response it got
    wrote,        \* whether the current/last request wrote to the database
    area          \* the part of the API the behaviour exercises

vars == <<users, articles, next_pk, pub_subs, j_subs, newsletters, next_nl,
          now, inflight, sent, resp, wrote, area>>

\* The database tables
store == <<users, articles, next_pk, pub_subs, j_subs, newsletters, next_nl>>

----------------------------------------------------------------------------
(* Bounds of the model *)

MaxArticles == 2
MaxNewsletters == 1
MaxClock == 2

----------------------------------------------------------------------------
(* Nullable values *)

None == <<>>
Some(x) == <<x>>

----------------------------------------------------------------------------
(* Text as code points *)

S_Reader == <<82, 101, 97, 100, 101, 114>>                     \* "Reader"
S_Editor == <<69, 100, 105, 116, 111, 114>>                    \* "Editor"
S_Journalist == <<74, 111, 117, 114, 110, 97, 108, 105, 115, 116>>  \* "Journalist"
S_reader == <<114, 101, 97, 100, 101, 114>>                    \* "reader"
S_editor == <<101, 100, 105, 116, 111, 114>>                   \* "editor"
S_journalist == <<106, 111, 117, 114, 110, 97, 108, 105, 115, 116>> \* "journalist"
S_empty == <<>>                                                \* ""

\* str.isspace() for the code points the model uses
IsSpace(c) == c \in {9, 10, 11, 12, 13, 28, 29, 30, 31, 32}

\* str.lower() on ASCII text
Lower(s) == [i \in 1..Len(s) |-> IF s[i] \in 65..90 THEN s[i] + 32 ELSE s[i]]

RECURSIVE LStrip(_)
LStrip(s) == IF s # <<>> /\ IsSpace(Head(s)) THEN LStrip(Tail(s)) ELSE s

RECURSIVE RStrip(_)
RStrip(s) ==
    IF s # <<>> /\ IsSpace(s[Len(s)]) THEN RStrip(SubSeq(s, 1, Len(s) - 1)) ELSE s

\* str.strip()
Strip(s) == RStrip(LStrip(s))

\* Python's str ordering: s < t, by code point, a proper prefix first
RECURSIVE StrLess(_, _)
StrLess(s, t) ==
    IF t = <<>> THEN FALSE
    ELSE IF s = <<>> THEN TRUE
    ELSE IF Head(s) # Head(t) THEN Head(s) < Head(t)
    ELSE StrLess(Tail(s), Tail(t))

\* sorted(S) of a set of strings
RECURSIVE Sorted(_)
Sorted(S) ==
    IF S = {} THEN <<>>
    ELSE LET m == CHOOSE x \in S : \A y \in S \ {x} : StrLess(x, y)
         IN  <<m>> \o Sorted(S \ {m})

----------------------------------------------------------------------------
(* The fixed population: users, groups, publishers *)

RoleGroups == {"Reader", "Journalist", "Editor"}

UserIds == {"r1", "r2", "j1", "j2", "e1", "g1"}
Anonymous == "anon"
Callers == UserIds \cup {Anonymous}

\* The users registered as readers and as journalists
Readers == {"r1", "r2"}
Journalists == {"j1", "j2"}

PublisherIds == {"p1"}

Titles == {"t1", "t2"}
Contents == {"c1"}

\* Users as CustomUser.save leaves them (groups = the role's group), and g1,
\* whose role attribute is blank and who is an editor by group membership
\* only (the "group fallback" of the permission classes).
InitialUsers ==
    [u \in UserIds |->
        CASE u = "r1" -> [role |-> S_Reader, groups |-> {"Reader"}, email |-> <<98>>]
          [] u = "r2" -> [role |-> S_Reader, groups |-> {"Reader"}, email |-> <<32, 97>>]
          [] u = "j1" -> [role |-> S_Journalist, groups |-> {"Journalist"}, email |-> <<106>>]
          [] u = "j2" -> [role |-> S_Journalist, groups |-> {"Journalist"}, email |-> <<>>]
          [] u = "e1" -> [role |-> S_Editor, groups |-> {"Editor"}, email |-> <<101>>]
          [] u = "g1" -> [role |-> S_empty, groups |-> {"Editor"}, email |-> <<103>>]]

----------------------------------------------------------------------------
(* Role Authority *)

is_authenticated(u) == u \in UserIds

\* getattr(user, "role", "") or ""
RoleAttr(u) == IF u \in UserIds THEN users[u].role ELSE S_empty

\* user.groups.filter(name=g).exists()
InGroup(u, g) == u \in UserIds /\ g \in users[u].groups

\* api/permissions.py
_role(u) == Lower(Strip(RoleAttr(u)))

\* Fault: IsEditor without its role test
IsEditor_any_authenticated(u) == is_authenticated(u)

IsEditor(u) == is_authenticated(u) /\ (_role(u) = S_editor \/ InGroup(u, "Editor"))

\* Fault: IsJournalist without its role test
IsJournalist_any_authenticated(u) == is_authenticated(u)

IsJournalist(u) ==
    is_authenticated(u) /\ (_role(u) = S_journalist \/ InGroup(u, "Journalist"))

\* Fault: IsReader without its role test
IsReader_any_authenticated(u) == is_authenticated(u)

IsReader(u) == is_authenticated(u) /\ (_role(u) = S_reader \/ InGroup(u, "Reader"))

\* Fault: IsJournalistOrEditor without its role test
IsJournalistOrEditor_any_authenticated(u) == is_authenticated(u)

IsJournalistOrEditor(u) ==
    /\ is_authenticated(u)
    /\ \/ _role(u) \in {S_journalist, S_editor}
       \/ InGroup(u, "Journalist")
       \/ InGroup(u, "Editor")

\* news/views.py
_is_editor(u) == Strip(RoleAttr(u)) = S_Editor \/ InGroup(u, "Editor")

_is_journalist(u) == Strip(RoleAttr(u)) = S_Journalist \/ InGroup(u, "Journalist")

_is_reader(u) == Strip(RoleAttr(u)) = S_Reader \/ InGroup(u, "Reader")

----------------------------------------------------------------------------
(* Rows and responses *)

\* order_by("-created_at") of a set of article pks (created_at grows with pk)
RECURSIVE ByCreatedDesc(_)
ByCreatedDesc(S) ==
    IF S = {} THEN <<>>
    ELSE LET m == CHOOSE x \in S : \A y \in S : y <= x
         IN  <<m>> \o ByCreatedDesc(S \ {m})

\* Response statuses: "ok" 200, "created" 201, "no_content" 204,
\* "redirect" 302, "login_redirect" 302 to the login page (login_required),
\* "bad_request" 400, "unauthorized" 401/403 for an unauthenticated API
\* caller, "forbidden" 403, "not_found" 404, "server_error" 500, and
\* "pending" while the request is still being handled.
Response(op, method, u, pk, status, data) ==
    [op |-> op, method |-> method, user |-> u, pk |-> pk,
     status |-> status, data |-> data]

NoData == <<>>

----------------------------------------------------------------------------
(* Notification Dispatcher: news/services.py *)

\* values_list("reader__email") of a set of reader pks, as a set of texts
ReaderEmails(readers) == {users[r].email : r \in readers}

\* Fault: the addresses collected as stored, neither trimmed nor filtered
_unique_subscriber_emails_unstripped(a) ==
    LET publisher_readers ==
            IF a.publisher # None
            THEN {s[2] : s \in {x \in pub_subs : Some(x[1]) = a.publisher}}
            ELSE {}
        journalist_readers == {s[2] : s \in {x \in j_subs : x[1] = a.author}}
    IN  Sorted(ReaderEmails(publisher_readers) \cup ReaderEmails(journalist_readers))

_unique_subscriber_emails_for_article(a) ==
    LET publisher_readers ==
            IF a.publisher # None
            THEN {s[2] : s \in {x \in pub_subs : Some(x[1]) = a.publisher}}
            ELSE {}
        journalist_readers == {s[2] : s \in {x \in j_subs : x[1] = a.author}}
        emails == {Strip(e) :
                     e \in ReaderEmails(publisher_readers)
                           \cup ReaderEmails(journalist_readers)}
    IN  Sorted({e \in emails : e # <<>>})

\* One send_mail call: a single-recipient list and the rendered fields
Mail(pk, a, recipient) ==
    [recipient_list |-> <<recipient>>,
     article |-> pk,
     title |-> a.title,
     publisher_name |-> IF a.publisher = None THEN "Unknown Publisher"
                        ELSE a.publisher[1],
     author_name |-> a.author]

----------------------------------------------------------------------------
(* Request bodies and the article serializer / form *)

\* Request bodies a client may send for an article: a full body that also
\* supplies the editor-controlled fields and an author, a full body with a
\* publisher, a partial body naming only editor-controlled fields, and a body
\* whose publisher does not exist.
ArticlePayloads ==
    {[title |-> "t1", content |-> "c1", publisher |-> None,
      author |-> "j2", approved |-> TRUE, approved_at |-> Some(0),
      approved_by |-> Some("e1")],
     [title |-> "t2", content |-> "c1", publisher |-> Some("p1")],
     [approved |-> TRUE, approved_at |-> Some(0), approved_by |-> Some("e1")],
     [title |-> "t1", content |-> "c1", publisher |-> Some("p_unknown")]}

\* The bodies sent to update an article: the full body that also supplies the
\* editor-controlled fields, the partial body and the invalid one
ArticleUpdatePayloads ==
    {b \in ArticlePayloads : "publisher" \in DOMAIN b => b.publisher # Some("p1")}

\* ArticleCreateSerializer.Meta.fields / ArticleForm.Meta.fields
ArticleWritableFields == {"title", "content", "publisher"}

\* Fault: every field of the body taken as validated
request_data(body) == body

\* serializer.validated_data: only the declared fields are read
validated_data(body) ==
    [f \in (DOMAIN body) \cap ArticleWritableFields |-> body[f]]

\* serializer.is_valid(): title and content required unless partial (PATCH),
\* neither may be blank, publisher must be null or an existing pk
is_valid(body, partial) ==
    LET d == validated_data(body) IN
    /\ partial \/ {"title", "content"} \subseteq DOMAIN d
    /\ "title" \in DOMAIN d => d.title \in Titles
    /\ "content" \in DOMAIN d => d.content \in Contents
    /\ "publisher" \in DOMAIN d =>
          (d.publisher = None \/ d.publisher[1] \in PublisherIds)

\* Model field defaults of Article
ArticleDefaults ==
    [title |-> "", content |-> "", publisher |-> None, approved |-> FALSE,
     approved_at |-> None, approved_by |-> None]

ArticleColumns ==
    {"author", "title", "content", "publisher", "approved", "approved_at",
     "approved_by"}

\* Article(**attrs): the attributes given, the field defaults for the rest
ArticleRow(attrs) ==
    [f \in ArticleColumns |->
        IF f \in DOMAIN attrs THEN attrs[f] ELSE ArticleDefaults[f]]

\* serializer.save(**kwargs): {**validated_data, **kwargs}
save_kwargs(data, kwargs) ==
    [f \in (DOMAIN data) \cup (DOMAIN kwargs) |->
        IF f \in DOMAIN kwargs THEN kwargs[f] ELSE data[f]]

\* Fault: an edited row goes back to approved = False
UpdatedRow_back_to_pending(a, data) ==
    [f \in DOMAIN a |-> IF f \in DOMAIN data THEN data[f]
                        ELSE IF f = "approved" THEN FALSE ELSE a[f]]

\* ModelSerializer.update / construct_instance: set the validated attributes
UpdatedRow(a, data) ==
    [f \in DOMAIN a |-> IF f \in DOMAIN data THEN data[f] ELSE a[f]]

\* Article.clean(): the author must have role exactly "Journalist"
Article_clean(author) == author \in UserIds /\ users[author].role = S_Journalist

----------------------------------------------------------------------------
(* The send_mail loop and the two ways a request ends *)

\* Fault: a failing send_mail call skipped, the loop going on
SendLoop_skipping(pk, a, fail_at) ==
    LET recipient_emails == _unique_subscriber_emails_for_article(a)
        kept == SelectSeq([i \in 1..Len(recipient_emails) |-> i],
                          LAMBDA i : i # fail_at)
    IN  [i \in 1..Len(kept) |-> Mail(pk, a, recipient_emails[kept[i]])]

\* The loop of send_article_approved_email_to_subscribers over the sorted
\* recipients.  fail_at = 0: every send_mail call returns; fail_at = k > 0:
\* the k-th call raises (fail_silently=False), after k - 1 calls were made.
SendLoop(pk, a, fail_at) ==
    LET recipient_emails == _unique_subscriber_emails_for_article(a)
        n == IF fail_at = 0 THEN Len(recipient_emails) ELSE fail_at - 1
    IN  [i \in 1..n |-> Mail(pk, a, recipient_emails[i])]

\* The value send_article_approved_email_to_subscribers returns
sent_count(a) == Len(_unique_subscriber_emails_for_article(a))

\* A request that writes nothing: only the response is new
Refuse(r) ==
    /\ resp' = r
    /\ sent' = <<>>
    /\ wrote' = FALSE
    /\ UNCHANGED <<store, now, inflight>>

\* The response of a request that wrote to the database
Reply(r) ==
    /\ resp' = r
    /\ sent' = <<>>
    /\ wrote' = TRUE
    /\ UNCHANGED <<now, inflight>>

----------------------------------------------------------------------------
(* Article Lifecycle: approve and reject *)

\* Fault: approval that leaves approved_at as it was
Approved_without_time(a, u) ==
    [a EXCEPT !.approved = TRUE, !.approved_by = Some(u)]

\* Fault: an article already approved keeps its first approval
Approved_unless_approved(a, u) ==
    IF a.approved THEN a
    ELSE [a EXCEPT !.approved = TRUE, !.approved_at = Some(now),
                   !.approved_by = Some(u)]

\* article.approved = True; approved_at = timezone.now(); approved_by = user
Approved(a, u) ==
    [a EXCEPT !.approved = TRUE, !.approved_at = Some(now), !.approved_by = Some(u)]

\* Fault: the dispatcher reached with the article changed in memory only
SaveApproval_unsaved(op, method, u, pk) ==
    /\ now <= MaxClock
    /\ now' = now + 1
    /\ inflight' = Some([op |-> op, method |-> method, user |-> u, pk |-> pk,
                         article |-> Approved(articles[pk], u)])
    /\ resp' = Response(op, method, u, pk, "pending", NoData)
    /\ sent' = <<>>
    /\ wrote' = TRUE
    /\ UNCHANGED store

\* article.save(update_fields=["approved", "approved_at", "approved_by"]):
\* the row is written, and the handler goes on to the dispatcher holding the
\* article object it has just saved
SaveApproval(op, method, u, pk) ==
    /\ now <= MaxClock
    /\ articles' = [articles EXCEPT
                       ![pk].approved = Approved(articles[pk], u).approved,
                       ![pk].approved_at = Approved(articles[pk], u).approved_at,
                       ![pk].approved_by = Approved(articles[pk], u).approved_by]
    /\ now' = now + 1
    /\ inflight' = Some([op |-> op, method |-> method, user |-> u, pk |-> pk,
                         article |-> Approved(articles[pk], u)])
    /\ resp' = Response(op, method, u, pk, "pending", NoData)
    /\ sent' = <<>>
    /\ wrote' = TRUE
    /\ UNCHANGED <<users, next_pk, pub_subs, j_subs, newsletters, next_nl>>

\* POST /articles/{pk}/approve/, up to the save
ApproveArticleAPIView_post(u, pk) ==
    LET op == "api_article_approve" IN
    IF ~is_authenticated(u)
    THEN Refuse(Response(op, "POST", u, pk, "unauthorized", NoData))
    ELSE IF ~IsEditor(u)
    THEN Refuse(Response(op, "POST", u, pk, "forbidden", NoData))
    ELSE IF pk \notin DOMAIN articles
    THEN Refuse(Response(op, "POST", u, pk, "not_found", NoData))
    ELSE SaveApproval(op, "POST", u, pk)

\* Fault: the approval carried out whatever the request method
approve_article_any_method(u, pk, method) ==
    LET op == "approve_article" IN
    IF ~is_authenticated(u)
    THEN Refuse(Response(op, method, u, pk, "login_redirect", NoData))
    ELSE IF ~_is_editor(u)
    THEN Refuse(Response(op, method, u, pk, "forbidden", NoData))
    ELSE IF pk \notin DOMAIN articles
    THEN Refuse(Response(op, method, u, pk, "not_found", NoData))
    ELSE SaveApproval(op, method, u, pk)

\* news.views.approve_article, up to the save
approve_article(u, pk, method) ==
    LET op == "approve_article" IN
    IF ~is_authenticated(u)
    THEN Refuse(Response(op, method, u, pk, "login_redirect", NoData))
    ELSE IF ~_is_editor(u)
    THEN Refuse(Response(op, method, u, pk, "forbidden", NoData))
    ELSE IF pk \notin DOMAIN articles
    THEN Refuse(Response(op, method, u, pk, "not_found", NoData))
    ELSE IF method = "POST"
    THEN SaveApproval(op, method, u, pk)
    ELSE Refuse(Response(op, method, u, pk, "redirect", NoData))

\* Fault: the approval undone when a send_mail call raises
NotifyAndRespond_rolled_back(fail_at) ==
    /\ inflight # None
    /\ LET r == inflight[1] IN
       /\ fail_at \in 0..sent_count(r.article)
       /\ sent' = SendLoop(r.pk, r.article, fail_at)
       /\ articles' = IF fail_at # 0
                      THEN [articles EXCEPT ![r.pk].approved = FALSE,
                                            ![r.pk].approved_at = None,
                                            ![r.pk].approved_by = None]
                      ELSE articles
       /\ resp' = IF fail_at # 0
                  THEN Response(r.op, r.method, r.user, r.pk, "server_error", NoData)
                  ELSE IF r.op = "api_article_approve"
                  THEN Response(r.op, r.method, r.user, r.pk, "ok",
                                [article_id |-> r.pk,
                                 approved |-> r.article.approved,
                                 approved_at |-> r.article.approved_at,
                                 approved_by |-> r.user])
                  ELSE Response(r.op, r.method, r.user, r.pk, "redirect", NoData)
    /\ inflight' = None
    /\ UNCHANGED <<users, next_pk, pub_subs, j_subs, newsletters, next_nl,
                   now, wrote>>

\* The rest of either approve handler: the call of
\* send_article_approved_email_to_subscribers(article) and the response.  An
\* exception of send_mail leaves the handler and becomes a 500.
NotifyAndRespond(fail_at) ==
    /\ inflight # None
    /\ LET r == inflight[1] IN
       /\ fail_at \in 0..sent_count(r.article)
       /\ sent' = SendLoop(r.pk, r.article, fail_at)
       /\ resp' = IF fail_at # 0
                  THEN Response(r.op, r.method, r.user, r.pk, "server_error", NoData)
                  ELSE IF r.op = "api_article_approve"
                  THEN Response(r.op, r.method, r.user, r.pk, "ok",
                                [article_id |-> r.pk,
                                 approved |-> r.article.approved,
                                 approved_at |-> r.article.approved_at,
                                 approved_by |-> r.user])
                  ELSE Response(r.op, r.method, r.user, r.pk, "redirect", NoData)
    /\ inflight' = None
    /\ UNCHANGED <<store, now, wrote>>

\* Fault: every unapproved article deleted along with the one named
DeletePendingArticles(pk) ==
    /\ articles' = [i \in {j \in DOMAIN articles \ {pk} : articles[j].approved}
                      |-> articles[i]]
    /\ newsletters' = [n \in DOMAIN newsletters |->
                         [newsletters[n] EXCEPT
                             !.articles = @ \cap DOMAIN articles']]

\* article.delete(): the row goes, and with it its rows in the
\* newsletter-articles join table
DeleteArticle(pk) ==
    /\ articles' = [i \in DOMAIN articles \ {pk} |-> articles[i]]
    /\ newsletters' = [n \in DOMAIN newsletters |->
                         [newsletters[n] EXCEPT !.articles = @ \ {pk}]]

\* POST /articles/{pk}/reject/
RejectArticleAPIView_post(u, pk) ==
    LET op == "api_article_reject" IN
    IF ~is_authenticated(u)
    THEN Refuse(Response(op, "POST", u, pk, "unauthorized", NoData))
    ELSE IF ~IsEditor(u)
    THEN Refuse(Response(op, "POST", u, pk, "forbidden", NoData))
    ELSE IF pk \notin DOMAIN articles
    THEN Refuse(Response(op, "POST", u, pk, "not_found", NoData))
    ELSE /\ DeleteArticle(pk)
         /\ Reply(Response(op, "POST", u, pk, "ok", [article_id |-> pk]))
         /\ UNCHANGED <<users, next_pk, pub_subs, j_subs, next_nl>>

\* news.views.reject_article
reject_article(u, pk, method) ==
    LET op == "reject_article" IN
    IF ~is_authenticated(u)
    THEN Refuse(Response(op, method, u, pk, "login_redirect", NoData))
    ELSE IF ~_is_editor(u)
    THEN Refuse(Response(op, method, u, pk, "forbidden", NoData))
    ELSE IF pk \notin DOMAIN articles
    THEN Refuse(Response(op, method, u, pk, "not_found", NoData))
    ELSE IF method = "POST"
    THEN /\ DeleteArticle(pk)
         /\ Reply(Response(op, method, u, pk, "redirect", NoData))
         /\ UNCHANGED <<users, next_pk, pub_subs, j_subs, next_nl>>
    ELSE Refuse(Response(op, method, u, pk, "redirect", NoData))

----------------------------------------------------------------------------
(* Article Lifecycle: submit *)

\* ArticleListCreateAPIView.perform_create
perform_create(u, data) ==
    ArticleRow(save_kwargs(data,
        [author |-> u, approved |-> FALSE, approved_at |-> None,
         approved_by |-> None]))

\* The INSERT of a new Article row
InsertArticle(row) ==
    /\ next_pk <= MaxArticles
    /\ articles' = [i \in (DOMAIN articles) \cup {next_pk} |->
                       IF i = next_pk THEN row ELSE articles[i]]
    /\ next_pk' = next_pk + 1

\* POST /articles/
ArticleListCreateAPIView_post(u, body) ==
    LET op == "api_article_create" IN
    IF ~is_authenticated(u)
    THEN Refuse(Response(op, "POST", u, 0, "unauthorized", NoData))
    ELSE IF ~IsJournalist(u)
    THEN Refuse(Response(op, "POST", u, 0, "forbidden", NoData))
    ELSE IF ~is_valid(body, FALSE)
    THEN Refuse(Response(op, "POST", u, 0, "bad_request", NoData))
    ELSE /\ InsertArticle(perform_create(u, validated_data(body)))
         /\ Reply(Response(op, "POST", u, next_pk, "created", NoData))
         /\ UNCHANGED <<users, pub_subs, j_subs, newsletters, next_nl>>

\* news.views.create_article, the row it saves on a valid POST
create_article_row(u, body) ==
    [UpdatedRow(ArticleRow([author |-> u]), validated_data(body))
        EXCEPT !.approved = FALSE, !.approved_at = None, !.approved_by = None]

\* news.views.create_article
create_article(u, method, body) ==
    LET op == "create_article" IN
    IF ~is_authenticated(u)
    THEN Refuse(Response(op, method, u, 0, "login_redirect", NoData))
    ELSE IF ~_is_journalist(u)
    THEN Refuse(Response(op, method, u, 0, "forbidden", NoData))
    ELSE IF method # "POST"
    THEN Refuse(Response(op, method, u, 0, "ok", NoData))
    ELSE IF ~Article_clean(u)
    \* form.is_valid() runs Article.clean(); its error is keyed by "author",
    \* which is no field of ArticleForm, and add_error raises ValueError
    THEN Refuse(Response(op, method, u, 0, "server_error", NoData))
    ELSE IF ~is_valid(body, FALSE)
    THEN Refuse(Response(op, method, u, 0, "ok", NoData))
    ELSE /\ InsertArticle(create_article_row(u, body))
         /\ Reply(Response(op, method, u, next_pk, "redirect", NoData))
         /\ UNCHANGED <<users, pub_subs, j_subs, newsletters, next_nl>>

----------------------------------------------------------------------------
(* Access Policy: object-level permissions *)

\* getattr(obj, name, None)
getattr(obj, name) == IF name \in DOMAIN obj THEN Some(obj[name]) ELSE None

\* api.permissions.IsOwnerOrEditor.has_object_permission
IsOwnerOrEditor(u, obj) ==
    /\ is_authenticated(u)
    /\ \/ getattr(obj, "reader") = Some(u)
       \/ getattr(obj, "author") = Some(u)
       \/ _role(u) = S_editor
       \/ InGroup(u, "Editor")

\* Fault: the newsletter's author alone, no editor override
IsOwnerForNewsletter(u, obj) ==
    /\ is_authenticated(u)
    /\ getattr(obj, "author") = Some(u)

\* api.permissions.IsOwnerOrEditorForNewsletter.has_object_permission
IsOwnerOrEditorForNewsletter(u, obj) ==
    /\ is_authenticated(u)
    /\ \/ getattr(obj, "author") = Some(u)
       \/ _role(u) = S_editor
       \/ InGroup(u, "Editor")

\* Fault: the author let in to read their own unapproved article
CanReadApprovedOrOwnArticles(u, method, obj) ==
    /\ method \in {"GET", "HEAD", "OPTIONS"}
    /\ is_authenticated(u)
    /\ \/ obj.approved
       \/ obj.author = u
       \/ _role(u) = S_editor
       \/ InGroup(u, "Editor")

\* api.permissions.CanReadApprovedArticles.has_object_permission
CanReadApprovedArticles(u, method, obj) ==
    /\ method \in {"GET", "HEAD", "OPTIONS"}
    /\ is_authenticated(u)
    /\ \/ obj.approved
       \/ _role(u) = S_editor
       \/ InGroup(u, "Editor")

----------------------------------------------------------------------------
(* Article detail: read, update, delete *)

\* GET /articles/{pk}/
ArticleDetailAPIView_get(u, pk) ==
    LET op == "api_article_detail" IN
    IF ~is_authenticated(u)
    THEN Refuse(Response(op, "GET", u, pk, "unauthorized", NoData))
    ELSE IF pk \notin DOMAIN articles
    THEN Refuse(Response(op, "GET", u, pk, "not_found", NoData))
    ELSE IF ~CanReadApprovedArticles(u, "GET", articles[pk])
    THEN Refuse(Response(op, "GET", u, pk, "forbidden", NoData))
    ELSE Refuse(Response(op, "GET", u, pk, "ok", articles[pk]))

\* PUT or PATCH /articles/{pk}/
ArticleDetailAPIView_update(u, pk, method, body) ==
    LET op == "api_article_update" IN
    IF ~is_authenticated(u)
    THEN Refuse(Response(op, method, u, pk, "unauthorized", NoData))
    ELSE IF pk \notin DOMAIN articles
    THEN Refuse(Response(op, method, u, pk, "not_found", NoData))
    ELSE IF ~IsOwnerOrEditor(u, articles[pk])
    THEN Refuse(Response(op, method, u, pk, "forbidden", NoData))
    ELSE IF ~is_valid(body, method = "PATCH")
    THEN Refuse(Response(op, method, u, pk, "bad_request", NoData))
    ELSE /\ articles' = [articles EXCEPT
                            ![pk] = UpdatedRow(@, validated_data(body))]
         /\ Reply(Response(op, method, u, pk, "ok", NoData))
         /\ UNCHANGED <<users, next_pk, pub_subs, j_subs, newsletters, next_nl>>

\* DELETE /articles/{pk}/
ArticleDetailAPIView_delete(u, pk) ==
    LET op == "api_article_delete" IN
    IF ~is_authenticated(u)
    THEN Refuse(Response(op, "DELETE", u, pk, "unauthorized", NoData))
    ELSE IF pk \notin DOMAIN articles
    THEN Refuse(Response(op, "DELETE", u, pk, "not_found", NoData))
    ELSE IF ~IsOwnerOrEditor(u, articles[pk])
    THEN Refuse(Response(op, "DELETE", u, pk, "forbidden", NoData))
    ELSE /\ DeleteArticle(pk)
         /\ Reply(Response(op, "DELETE", u, pk, "no_content", NoData))
         /\ UNCHANGED <<users, next_pk, pub_subs, j_subs, next_nl>>

\* news.views.article_detail
article_detail(u, pk) ==
    LET op == "article_detail" IN
    IF ~is_authenticated(u)
    THEN Refuse(Response(op, "GET", u, pk, "login_redirect", NoData))
    ELSE IF pk \notin DOMAIN articles
    THEN Refuse(Response(op, "GET", u, pk, "not_found", NoData))
    ELSE IF ~articles[pk].approved /\ ~_is_editor(u)
    THEN Refuse(Response(op, "GET", u, pk, "forbidden", NoData))
    ELSE Refuse(Response(op, "GET", u, pk, "ok", articles[pk]))

----------------------------------------------------------------------------
(* Article listing *)

NoFilter == "all"

\* ArticleListCreateAPIView.get_queryset: the pks selected, newest first
get_queryset(u, publisher_id, author_id) ==
    LET role == Lower(Strip(RoleAttr(u)))
        base == IF ~is_authenticated(u) THEN {}
                ELSE IF role = S_editor THEN DOMAIN articles
                ELSE IF role = S_journalist
                THEN {i \in DOMAIN articles :
                        articles[i].approved \/ articles[i].author = u}
                ELSE {i \in DOMAIN articles : articles[i].approved}
        by_publisher == IF publisher_id # NoFilter
                        THEN {i \in base : articles[i].publisher = Some(publisher_id)}
                        ELSE base
        by_author == IF author_id # NoFilter
                     THEN {i \in by_publisher : articles[i].author = author_id}
                     ELSE by_publisher
    IN  ByCreatedDesc(by_author)

\* GET /articles/?publisher=..&author=..
ArticleListCreateAPIView_get(u, publisher_id, author_id) ==
    LET op == "api_article_list" IN
    IF ~is_authenticated(u)
    THEN Refuse(Response(op, "GET", u, 0, "unauthorized", NoData))
    ELSE Refuse(Response(op, "GET", u, 0, "ok",
                         [filters |-> <<publisher_id, author_id>>,
                          results |-> get_queryset(u, publisher_id, author_id)]))

\* Fault: the feed without its approved=True filter
subscribed_queryset_unfiltered(u) ==
    LET publisher_ids == {s[1] : s \in {x \in pub_subs : x[2] = u}}
        journalist_ids == {s[1] : s \in {x \in j_subs : x[2] = u}}
    IN  ByCreatedDesc({i \in DOMAIN articles :
                          \/ /\ articles[i].publisher # None
                             /\ articles[i].publisher[1] \in publisher_ids
                          \/ articles[i].author \in journalist_ids})

\* Fault: the feed built from the publisher subscriptions alone
subscribed_queryset_publishers_only(u) ==
    LET publisher_ids == {s[1] : s \in {x \in pub_subs : x[2] = u}}
    IN  ByCreatedDesc({i \in DOMAIN articles :
                          /\ articles[i].approved
                          /\ articles[i].publisher # None
                          /\ articles[i].publisher[1] \in publisher_ids})

\* SubscribedArticleListAPIView.get_queryset: the pks selected, newest first
subscribed_queryset(u) ==
    LET publisher_ids == {s[1] : s \in {x \in pub_subs : x[2] = u}}
        journalist_ids == {s[1] : s \in {x \in j_subs : x[2] = u}}
    IN  ByCreatedDesc({i \in DOMAIN articles :
                          /\ articles[i].approved
                          /\ \/ /\ articles[i].publisher # None
                                /\ articles[i].publisher[1] \in publisher_ids
                             \/ articles[i].author \in journalist_ids})

\* GET /articles/subscribed/
SubscribedArticleListAPIView_get(u) ==
    LET op == "api_article_subscribed" IN
    IF ~is_authenticated(u)
    THEN Refuse(Response(op, "GET", u, 0, "unauthorized", NoData))
    ELSE IF ~IsReader(u)
    THEN Refuse(Response(op, "GET", u, 0, "forbidden", NoData))
    ELSE Refuse(Response(op, "GET", u, 0, "ok",
                         [results |-> subscribed_queryset(u)]))

\* GET /articles/pending/ (PendingArticleListAPIView)
PendingArticleListAPIView_get(u) ==
    LET op == "api_article_pending" IN
    IF ~is_authenticated(u)
    THEN Refuse(Response(op, "GET", u, 0, "unauthorized", NoData))
    ELSE IF ~IsEditor(u)
    THEN Refuse(Response(op, "GET", u, 0, "forbidden", NoData))
    ELSE Refuse(Response(op, "GET", u, 0, "ok",
                [results |-> ByCreatedDesc({i \in DOMAIN articles :
                                              ~articles[i].approved})]))

\* news.views.article_list
article_list(u) ==
    LET op == "article_list" IN
    IF ~is_authenticated(u)
    THEN Refuse(Response(op, "GET", u, 0, "login_redirect", NoData))
    ELSE Refuse(Response(op, "GET", u, 0, "ok",
                [results |-> ByCreatedDesc({i \in DOMAIN articles :
                                              articles[i].approved})]))

\* news.views.approval_queue
approval_queue(u) ==
    LET op == "approval_queue" IN
    IF ~is_authenticated(u)
    THEN Refuse(Response(op, "GET", u, 0, "login_redirect", NoData))
    ELSE IF ~_is_editor(u)
    THEN Refuse(Response(op, "GET", u, 0, "forbidden", NoData))
    ELSE Refuse(Response(op, "GET", u, 0, "ok",
                [results |-> ByCreatedDesc({i \in DOMAIN articles :
                                              ~articles[i].approved})]))

----------------------------------------------------------------------------
(* Subscription Registry: the REST endpoints *)

\* A subscription row as the permission classes see it
PublisherSubscription(row) == [publisher |-> row[1], reader |-> row[2]]
JournalistSubscription(row) == [journalist |-> row[1], reader |-> row[2]]

\* The journalist field of JournalistSubscriptionSerializer: a user pk within
\* limit_choices_to = Q(role__iexact="Journalist")
JournalistChoices == {j \in UserIds : Lower(users[j].role) = S_journalist}

\* The INSERT of a row that unique_together already holds raises
\* IntegrityError (a 500), unless the serializer's own uniqueness validator
\* answers first (a 400); which one depends on the framework release.
DuplicateStatuses == {"server_error", "bad_request"}

\* POST /publisher-subscriptions/
PublisherSubscriptionListCreateAPIView_post(u, publisher) ==
    LET op == "api_publisher_subscription_create" IN
    IF ~is_authenticated(u)
    THEN Refuse(Response(op, "POST", u, publisher, "unauthorized", NoData))
    ELSE IF ~IsReader(u)
    THEN Refuse(Response(op, "POST", u, publisher, "forbidden", NoData))
    ELSE IF publisher \notin PublisherIds
    THEN Refuse(Response(op, "POST", u, publisher, "bad_request", NoData))
    ELSE IF <<publisher, u>> \in pub_subs
    THEN \E s \in DuplicateStatuses :
            Refuse(Response(op, "POST", u, publisher, s, NoData))
    ELSE /\ pub_subs' = pub_subs \cup {<<publisher, u>>}
         /\ Reply(Response(op, "POST", u, publisher, "created", NoData))
         /\ UNCHANGED <<users, articles, next_pk, j_subs, newsletters, next_nl>>

\* DELETE /publisher-subscriptions/{pk}/, pk naming the row
PublisherSubscriptionDeleteAPIView_delete(u, row) ==
    LET op == "api_publisher_subscription_delete" IN
    IF ~is_authenticated(u)
    THEN Refuse(Response(op, "DELETE", u, row, "unauthorized", NoData))
    ELSE IF row \notin pub_subs
    THEN Refuse(Response(op, "DELETE", u, row, "not_found", NoData))
    ELSE IF ~IsOwnerOrEditor(u, PublisherSubscription(row))
    THEN Refuse(Response(op, "DELETE", u, row, "forbidden", NoData))
    ELSE /\ pub_subs' = pub_subs \ {row}
         /\ Reply(Response(op, "DELETE", u, row, "no_content", NoData))
         /\ UNCHANGED <<users, articles, next_pk, j_subs, newsletters, next_nl>>

\* POST /journalist-subscriptions/
JournalistSubscriptionListCreateAPIView_post(u, journalist) ==
    LET op == "api_journalist_subscription_create" IN
    IF ~is_authenticated(u)
    THEN Refuse(Response(op, "POST", u, journalist, "unauthorized", NoData))
    ELSE IF ~IsReader(u)
    THEN Refuse(Response(op, "POST", u, journalist, "forbidden", NoData))
    ELSE IF journalist \notin JournalistChoices
    THEN Refuse(Response(op, "POST", u, journalist, "bad_request", NoData))
    ELSE IF <<journalist, u>> \in j_subs
    THEN \E s \in DuplicateStatuses :
            Refuse(Response(op, "POST", u, journalist, s, NoData))
    ELSE /\ j_subs' = j_subs \cup {<<journalist, u>>}
         /\ Reply(Response(op, "POST", u, journalist, "created", NoData))
         /\ UNCHANGED <<users, articles, next_pk, pub_subs, newsletters, next_nl>>

\* DELETE /journalist-subscriptions/{pk}/, pk naming the row
JournalistSubscriptionDeleteAPIView_delete(u, row) ==
    LET op == "api_journalist_subscription_delete" IN
    IF ~is_authenticated(u)
    THEN Refuse(Response(op, "DELETE", u, row, "unauthorized", NoData))
    ELSE IF row \notin j_subs
    THEN Refuse(Response(op, "DELETE", u, row, "not_found", NoData))
    ELSE IF ~IsOwnerOrEditor(u, JournalistSubscription(row))
    THEN Refuse(Response(op, "DELETE", u, row, "forbidden", NoData))
    ELSE /\ j_subs' = j_subs \ {row}
         /\ Reply(Response(op, "DELETE", u, row, "no_content", NoData))
         /\ UNCHANGED <<users, articles, next_pk, pub_subs, newsletters, next_nl>>

----------------------------------------------------------------------------
(* Subscription Registry: the web actions on an article page *)

\* news.views.subscribe_journalist_from_article
subscribe_journalist_from_article(u, pk, method) ==
    LET op == "subscribe_journalist_from_article" IN
    IF ~is_authenticated(u)
    THEN Refuse(Response(op, method, u, pk, "login_redirect", NoData))
    ELSE IF method # "POST"
    THEN Refuse(Response(op, method, u, pk, "redirect", NoData))
    ELSE IF ~_is_reader(u)
    THEN Refuse(Response(op, method, u, pk, "forbidden", NoData))
    ELSE IF pk \notin DOMAIN articles
    THEN Refuse(Response(op, method, u, pk, "not_found", NoData))
    ELSE IF <<articles[pk].author, u>> \in j_subs
    THEN Refuse(Response(op, method, u, pk, "redirect", "already subscribed"))
    ELSE /\ j_subs' = j_subs \cup {<<articles[pk].author, u>>}
         /\ Reply(Response(op, method, u, pk, "redirect", "now subscribed"))
         /\ UNCHANGED <<users, articles, next_pk, pub_subs, newsletters, next_nl>>

\* news.views.subscribe_publisher_from_article
subscribe_publisher_from_article(u, pk, method) ==
    LET op == "subscribe_publisher_from_article" IN
    IF ~is_authenticated(u)
    THEN Refuse(Response(op, method, u, pk, "login_redirect", NoData))
    ELSE IF method # "POST"
    THEN Refuse(Response(op, method, u, pk, "redirect", NoData))
    ELSE IF ~_is_reader(u)
    THEN Refuse(Response(op, method, u, pk, "forbidden", NoData))
    ELSE IF pk \notin DOMAIN articles
    THEN Refuse(Response(op, method, u, pk, "not_found", NoData))
    ELSE IF articles[pk].publisher = None
    THEN Refuse(Response(op, method, u, pk, "redirect", "no publisher"))
    ELSE IF <<articles[pk].publisher[1], u>> \in pub_subs
    THEN Refuse(Response(op, method, u, pk, "redirect", "already subscribed"))
    ELSE /\ pub_subs' = pub_subs \cup {<<articles[pk].publisher[1], u>>}
         /\ Reply(Response(op, method, u, pk, "redirect", "now subscribed"))
         /\ UNCHANGED <<users, articles, next_pk, j_subs, newsletters, next_nl>>

\* Fault: the delete filtered by journalist alone, every reader's row going
unsubscribe_journalist_every_reader(u, pk, method) ==
    LET op == "unsubscribe_journalist_from_article" IN
    IF ~is_authenticated(u)
    THEN Refuse(Response(op, method, u, pk, "login_redirect", NoData))
    ELSE IF method # "POST"
    THEN Refuse(Response(op, method, u, pk, "redirect", NoData))
    ELSE IF ~_is_reader(u)
    THEN Refuse(Response(op, method, u, pk, "forbidden", NoData))
    ELSE IF pk \notin DOMAIN articles
    THEN Refuse(Response(op, method, u, pk, "not_found", NoData))
    ELSE IF <<articles[pk].author, u>> \notin j_subs
    THEN Refuse(Response(op, method, u, pk, "redirect", "not subscribed"))
    ELSE /\ j_subs' = {x \in j_subs : x[1] # articles[pk].author}
         /\ Reply(Response(op, method, u, pk, "redirect", "unsubscribed"))
         /\ UNCHANGED <<users, articles, next_pk, pub_subs, newsletters, next_nl>>

\* news.views.unsubscribe_journalist_from_article
unsubscribe_journalist_from_article(u, pk, method) ==
    LET op == "unsubscribe_journalist_from_article" IN
    IF ~is_authenticated(u)
    THEN Refuse(Response(op, method, u, pk, "login_redirect", NoData))
    ELSE IF method # "POST"
    THEN Refuse(Response(op, method, u, pk, "redirect", NoData))
    ELSE IF ~_is_reader(u)
    THEN Refuse(Response(op, method, u, pk, "forbidden", NoData))
    ELSE IF pk \notin DOMAIN articles
    THEN Refuse(Response(op, method, u, pk, "not_found", NoData))
    ELSE IF <<articles[pk].author, u>> \notin j_subs
    THEN Refuse(Response(op, method, u, pk, "redirect", "not subscribed"))
    ELSE /\ j_subs' = j_subs \ {<<articles[pk].author, u>>}
         /\ Reply(Response(op, method, u, pk, "redirect", "unsubscribed"))
         /\ UNCHANGED <<users, articles, next_pk, pub_subs, newsletters, next_nl>>

\* news.views.unsubscribe_publisher_from_article
unsubscribe_publisher_from_article(u, pk, method) ==
    LET op == "unsubscribe_publisher_from_article" IN
    IF ~is_authenticated(u)
    THEN Refuse(Response(op, method, u, pk, "login_redirect", NoData))
    ELSE IF method # "POST"
    THEN Refuse(Response(op, method, u, pk, "redirect", NoData))
    ELSE IF ~_is_reader(u)
    THEN Refuse(Response(op, method, u, pk, "forbidden", NoData))
    ELSE IF pk \notin DOMAIN articles
    THEN Refuse(Response(op, method, u, pk, "not_found", NoData))
    ELSE IF articles[pk].publisher = None
    THEN Refuse(Response(op, method, u, pk, "redirect", "no publisher"))
    ELSE IF <<articles[pk].publisher[1], u>> \notin pub_subs
    THEN Refuse(Response(op, method, u, pk, "redirect", "not subscribed"))
    ELSE /\ pub_subs' = pub_subs \ {<<articles[pk].publisher[1], u>>}
         /\ Reply(Response(op, method, u, pk, "redirect", "unsubscribed"))
         /\ UNCHANGED <<users, articles, next_pk, j_subs, newsletters, next_nl>>

----------------------------------------------------------------------------
(* Newsletters *)

NewsletterTitles == {"n1"}

\* Request bodies for a newsletter: a full body that also supplies an author,
\* a partial body, and a body naming an article that does not exist
NewsletterPayloads ==
    {[title |-> "n1", articles |-> {1}, author |-> "j2"],
     [articles |-> {1, 2}],
     [title |-> "n1", articles |-> {99}]}

\* NewsletterCreateUpdateSerializer.Meta.fields (description left out: a free
\* text no rule reads)
NewsletterWritableFields == {"title", "articles"}

newsletter_validated_data(body) ==
    [f \in (DOMAIN body) \cap NewsletterWritableFields |-> body[f]]

\* NewsletterCreateUpdateSerializer.is_valid(): title required unless partial,
\* every article pk must exist
newsletter_is_valid(body, partial) ==
    LET d == newsletter_validated_data(body) IN
    /\ partial \/ "title" \in DOMAIN d
    /\ "title" \in DOMAIN d => d.title \in NewsletterTitles
    /\ "articles" \in DOMAIN d => d.articles \subseteq DOMAIN articles

\* NewsletterListCreateAPIView.perform_create: serializer.save(author=user)
newsletter_perform_create(u, data) ==
    LET kw == save_kwargs(data, [author |-> u]) IN
    [author |-> kw.author, title |-> kw.title,
     articles |-> IF "articles" \in DOMAIN kw THEN kw.articles ELSE {}]

\* POST /newsletters/
NewsletterListCreateAPIView_post(u, body) ==
    LET op == "api_newsletter_create" IN
    IF ~is_authenticated(u)
    THEN Refuse(Response(op, "POST", u, 0, "unauthorized", NoData))
    ELSE IF ~IsJournalistOrEditor(u)
    THEN Refuse(Response(op, "POST", u, 0, "forbidden", NoData))
    ELSE IF ~newsletter_is_valid(body, FALSE)
    THEN Refuse(Response(op, "POST", u, 0, "bad_request", NoData))
    ELSE /\ next_nl <= MaxNewsletters
         /\ newsletters' =
               [i \in (DOMAIN newsletters) \cup {next_nl} |->
                   IF i = next_nl
                   THEN newsletter_perform_create(u, newsletter_validated_data(body))
                   ELSE newsletters[i]]
         /\ next_nl' = next_nl + 1
         /\ Reply(Response(op, "POST", u, next_nl, "created", NoData))
         /\ UNCHANGED <<users, articles, next_pk, pub_subs, j_subs>>

\* GET /newsletters/: NewsletterListSerializer gives, of the linked articles,
\* their number only
NewsletterListCreateAPIView_get(u) ==
    LET op == "api_newsletter_list" IN
    IF ~is_authenticated(u)
    THEN Refuse(Response(op, "GET", u, 0, "unauthorized", NoData))
    ELSE Refuse(Response(op, "GET", u, 0, "ok",
                [results |->
                    [i \in 1..Len(ByCreatedDesc(DOMAIN newsletters)) |->
                        LET n == ByCreatedDesc(DOMAIN newsletters)[i] IN
                        [id |-> n, title |-> newsletters[n].title,
                         author |-> newsletters[n].author,
                         article_count |-> Cardinality(newsletters[n].articles)]]]))

\* The two routes onto a stored newsletter: /newsletters/{pk}/
\* (NewsletterDetailAPIView) and /newsletters/{pk}/manage/
\* (NewsletterUpdateDeleteAPIView)
NewsletterRoutes == {"api_newsletter_detail", "api_newsletter_manage"}

\* GET on either route
Newsletter_get(route, u, pk) ==
    IF ~is_authenticated(u)
    THEN Refuse(Response(route, "GET", u, pk, "unauthorized", NoData))
    ELSE IF pk \notin DOMAIN newsletters
    THEN Refuse(Response(route, "GET", u, pk, "not_found", NoData))
    ELSE IF route = "api_newsletter_manage"
            /\ ~IsOwnerOrEditorForNewsletter(u, newsletters[pk])
    THEN Refuse(Response(route, "GET", u, pk, "forbidden", NoData))
    ELSE Refuse(Response(route, "GET", u, pk, "ok",
                [newsletter |-> newsletters[pk],
                 articles |-> [i \in newsletters[pk].articles |-> articles[i]]]))

\* PUT or PATCH on either route
Newsletter_update(route, u, pk, method, body) ==
    IF ~is_authenticated(u)
    THEN Refuse(Response(route, method, u, pk, "unauthorized", NoData))
    ELSE IF pk \notin DOMAIN newsletters
    THEN Refuse(Response(route, method, u, pk, "not_found", NoData))
    ELSE IF ~IsOwnerOrEditorForNewsletter(u, newsletters[pk])
    THEN Refuse(Response(route, method, u, pk, "forbidden", NoData))
    ELSE IF ~newsletter_is_valid(body, method = "PATCH")
    THEN Refuse(Response(route, method, u, pk, "bad_request", NoData))
    ELSE /\ newsletters' = [newsletters EXCEPT
                               ![pk] = UpdatedRow(@, newsletter_validated_data(body))]
         /\ Reply(Response(route, method, u, pk, "ok", NoData))
         /\ UNCHANGED <<users, articles, next_pk, pub_subs, j_subs, next_nl>>

\* DELETE on either route
Newsletter_delete(route, u, pk) ==
    IF ~is_authenticated(u)
    THEN Refuse(Response(route, "DELETE", u, pk, "unauthorized", NoData))
    ELSE IF pk \notin DOMAIN newsletters
    THEN Refuse(Response(route, "DELETE", u, pk, "not_found", NoData))
    ELSE IF ~IsOwnerOrEditorForNewsletter(u, newsletters[pk])
    THEN Refuse(Response(route, "DELETE", u, pk, "forbidden", NoData))
    ELSE /\ newsletters' = [i \in DOMAIN newsletters \ {pk} |-> newsletters[i]]
         /\ Reply(Response(route, "DELETE", u, pk, "no_content", NoData))
         /\ UNCHANGED <<users, articles, next_pk, pub_subs, j_subs, next_nl>>

----------------------------------------------------------------------------
(* The system *)

Methods == {"GET", "POST"}
ArticlePks == 1..MaxArticles
NewsletterPks == 1..MaxNewsletters

\* A behaviour exercises one part of the API against a fixed, reachable
\* population of the tables the other parts write: the journalists' side from
\* an empty article table ("submission"), the editors' side on a table of
\* submitted articles ("editorial"), the subscription registry and the
\* newsletters on a table with a published article.
ArticleAreas == {"submission", "editorial"}
Areas == ArticleAreas \cup {"subscriptions", "newsletters"}

\* j1's article for publisher p1 and j2's independent article, as submitted
SubmittedArticles ==
    [i \in {1, 2} |->
        IF i = 1
        THEN [author |-> "j1", title |-> "t2", content |-> "c1",
              publisher |-> Some("p1"), approved |-> FALSE,
              approved_at |-> None, approved_by |-> None]
        ELSE [author |-> "j2", title |-> "t1", content |-> "c1",
              publisher |-> None, approved |-> FALSE,
              approved_at |-> None, approved_by |-> None]]

\* The same table after e1 approved article 1 at time 1
PublishedArticles ==
    [SubmittedArticles EXCEPT
        ![1].approved = TRUE, ![1].approved_at = Some(1), ![1].approved_by = Some("e1")]

\* r1 follows publisher p1 and journalist j1, r2 follows journalist j1
SeedPublisherSubscriptions == {<<"p1", "r1">>}
SeedJournalistSubscriptions == {<<"j1", "r1">>, <<"j1", "r2">>}

NoRequest == Response("none", "GET", Anonymous, 0, "ok", NoData)

Init ==
    /\ users = InitialUsers
    /\ area \in Areas
    /\ articles = CASE area = "submission" -> <<>>
                    [] area = "editorial" -> SubmittedArticles
                    [] OTHER -> PublishedArticles
    /\ next_pk = IF area = "submission" THEN 1 ELSE 3
    /\ now = IF area \in ArticleAreas THEN 1 ELSE 2
    /\ pub_subs = IF area \in ArticleAreas THEN SeedPublisherSubscriptions ELSE {}
    /\ j_subs = IF area \in ArticleAreas THEN SeedJournalistSubscriptions ELSE {}
    /\ newsletters = <<>>
    /\ next_nl = 1
    /\ inflight = None
    /\ sent = <<>>
    /\ resp = NoRequest
    /\ wrote = TRUE

\* The server takes the next request, one of the area the behaviour exercises.
\* A request that wrote nothing left the database as it found it, so whatever
\* could follow it could have been sent in its place; behaviours are explored
\* from there, and a request that writes nothing is the last of its behaviour.
Serve(as) ==
    /\ area \in as
    /\ inflight = None
    /\ wrote
    /\ area' = area

Next ==
    \/ \E u \in Callers, body \in ArticlePayloads :
          Serve({"submission"}) /\ ArticleListCreateAPIView_post(u, body)
    \/ \E u \in Callers, m \in Methods, body \in ArticlePayloads :
          Serve({"submission"}) /\ create_article(u, m, body)
    \/ \E u \in Callers, pk \in ArticlePks :
          Serve({"editorial"}) /\ ApproveArticleAPIView_post(u, pk)
    \/ \E u \in Callers, pk \in ArticlePks, m \in Methods :
          Serve({"editorial"}) /\ approve_article(u, pk, m)
    \/ \E f \in 0..Cardinality(UserIds) :
          NotifyAndRespond(f) /\ area' = area
    \/ \E u \in Callers, pk \in ArticlePks :
          Serve(ArticleAreas) /\ RejectArticleAPIView_post(u, pk)
    \/ \E u \in Callers, pk \in ArticlePks, m \in Methods :
          Serve(ArticleAreas) /\ reject_article(u, pk, m)
    \/ \E u \in Callers, pk \in ArticlePks :
          Serve(ArticleAreas) /\ ArticleDetailAPIView_get(u, pk)
    \/ \E u \in Callers, pk \in ArticlePks, m \in {"PUT", "PATCH"},
          body \in ArticleUpdatePayloads :
          Serve(ArticleAreas) /\ ArticleDetailAPIView_update(u, pk, m, body)
    \/ \E u \in Callers, pk \in ArticlePks :
          Serve(ArticleAreas \cup {"newsletters"})
          /\ ArticleDetailAPIView_delete(u, pk)
    \/ \E u \in Callers, pk \in ArticlePks :
          Serve(ArticleAreas) /\ article_detail(u, pk)
    \/ \E u \in Callers, p \in PublisherIds \cup {NoFilter},
          a \in {"j1", "e1", NoFilter} :
          Serve(ArticleAreas) /\ ArticleListCreateAPIView_get(u, p, a)
    \/ \E u \in Callers :
          Serve(ArticleAreas \cup {"subscriptions"})
          /\ SubscribedArticleListAPIView_get(u)
    \/ \E u \in Callers :
          Serve(ArticleAreas) /\ PendingArticleListAPIView_get(u)
    \/ \E u \in Callers :
          Serve(ArticleAreas) /\ article_list(u)
    \/ \E u \in Callers :
          Serve(ArticleAreas) /\ approval_queue(u)
    \/ \E u \in Callers :
          Serve({"newsletters"}) /\ NewsletterListCreateAPIView_get(u)
    \/ \E u \in Callers, p \in PublisherIds \cup {"p_unknown"} :
          Serve({"subscriptions"})
          /\ PublisherSubscriptionListCreateAPIView_post(u, p)
    \/ \E u \in Callers, row \in PublisherIds \X Readers :
          Serve({"subscriptions"})
          /\ PublisherSubscriptionDeleteAPIView_delete(u, row)
    \/ \E u \in Callers, j \in Journalists \cup {"e1"} :
          Serve({"subscriptions"})
          /\ JournalistSubscriptionListCreateAPIView_post(u, j)
    \/ \E u \in Callers, row \in Journalists \X Readers :
          Serve({"subscriptions"})
          /\ JournalistSubscriptionDeleteAPIView_delete(u, row)
    \/ \E u \in Callers, pk \in ArticlePks, m \in Methods :
          Serve({"subscriptions"}) /\ subscribe_journalist_from_article(u, pk, m)
    \/ \E u \in Callers, pk \in ArticlePks, m \in Methods :
          Serve({"subscriptions"}) /\ subscribe_publisher_from_article(u, pk, m)
    \/ \E u \in Callers, pk \in ArticlePks, m \in Methods :
          Serve({"subscriptions"}) /\ unsubscribe_journalist_from_article(u, pk, m)
    \/ \E u \in Callers, pk \in ArticlePks, m \in Methods :
          Serve({"subscriptions"}) /\ unsubscribe_publisher_from_article(u, pk, m)
    \/ \E u \in Callers, body \in NewsletterPayloads :
          Serve({"newsletters"}) /\ NewsletterListCreateAPIView_post(u, body)
    \/ \E r \in NewsletterRoutes, u \in Callers, pk \in NewsletterPks :
          Serve({"newsletters"}) /\ Newsletter_get(r, u, pk)
    \/ \E r \in NewsletterRoutes, u \in Callers, pk \in NewsletterPks,
          m \in {"PUT", "PATCH"}, body \in NewsletterPayloads :
          Serve({"newsletters"}) /\ Newsletter_update(r, u, pk, m, body)
    \/ \E r \in NewsletterRoutes, u \in Callers, pk \in NewsletterPks :
          Serve({"newsletters"}) /\ Newsletter_delete(r, u, pk)

Spec == Init /\ [][Next]_vars

----------------------------------------------------------------------------
(* The dispatcher on its own: send_article_approved_email_to_subscribers    *)
(* called on a stored article, for every subscription table and every       *)
(* choice of the two readers' addresses.                                    *)

\* "", " ", "a", " a", "b ", "B", "ab"
EmailPool == {<<>>, <<32>>, <<97>>, <<32, 97>>, <<98, 32>>, <<66>>, <<97, 98>>}

\* Two published articles, each with or without a publisher
DispatcherArticles ==
    {[i \in {1, 2} |->
        [author |-> IF i = 1 THEN "j1" ELSE "j2", title |-> "t1",
         content |-> "c1", publisher |-> IF i = 1 THEN p ELSE q,
         approved |-> TRUE, approved_at |-> Some(1),
         approved_by |-> Some("e1")]] :
        p \in {None, Some("p1")}, q \in {None, Some("p1")}}

\* services.send_article_approved_email_to_subscribers(article), called as
\* the service tests call it
send_article_approved_email_to_subscribers(pk) ==
    /\ pk \in DOMAIN articles
    /\ sent' = SendLoop(pk, articles[pk], 0)
    /\ resp' = Response("send_article_approved_email_to_subscribers", "CALL",
                        Anonymous, pk, "returned",
                        [sent_count |-> sent_count(articles[pk])])
    /\ wrote' = FALSE
    /\ UNCHANGED <<store, now, inflight>>

InitNotify ==
    /\ users \in {[InitialUsers EXCEPT !["r1"].email = a, !["r2"].email = b] :
                    a \in EmailPool, b \in EmailPool}
    /\ area = "dispatcher"
    /\ articles \in DispatcherArticles
    /\ next_pk = 3
    /\ now = 2
    /\ pub_subs \in SUBSET (PublisherIds \X Readers)
    /\ j_subs \in SUBSET (Journalists \X Readers)
    /\ newsletters = <<>>
    /\ next_nl = 1
    /\ inflight = None
    /\ sent = <<>>
    /\ resp = NoRequest
    /\ wrote = TRUE

NextNotify ==
    \E pk \in ArticlePks :
        Serve({"dispatcher"}) /\ send_article_approved_email_to_subscribers(pk)

SpecNotify == InitNotify /\ [][NextNotify]_vars

----------------------------------------------------------------------------
(* The accounts application on its own: the ways a CustomUser row is saved. *)

AccountIds == {"u1", "u2"}

\* Values of the role column: the three choices and, since the choices are
\* enforced by forms only, values a direct save can store ("" is what
\* createsuperuser leaves, "editor" a value the permission checks accept)
RoleChoices == {S_Reader, S_Journalist, S_Editor}
RoleValues == RoleChoices \cup {S_empty, S_editor}

\* CustomUser.save: role_to_group.get(self.role)
role_to_group(role) ==
    CASE role = S_Reader -> Some("Reader")
      [] role = S_Editor -> Some("Editor")
      [] role = S_Journalist -> Some("Journalist")
      [] OTHER -> None

\* CustomUser.save after super().save(): nothing when the role names no
\* group, else groups.remove(the three role groups); groups.add(the target)
sync_groups(role, groups) ==
    IF role_to_group(role) = None THEN groups
    ELSE (groups \ RoleGroups) \cup {role_to_group(role)[1]}

\* The users table with row u written
WithUser(u, row) ==
    [x \in DOMAIN users \cup {u} |-> IF x = u THEN row ELSE users[x]]

\* What a call of the accounts application leaves behind
AccountCall(op, u) ==
    /\ resp' = Response(op, "CALL", u, u, "ok", NoData)
    /\ sent' = <<>>
    /\ wrote' = TRUE
    /\ UNCHANGED <<articles, next_pk, pub_subs, j_subs, newsletters, next_nl,
                   now, inflight>>

\* CustomUser.objects.create_user(role=role): a new row, then save()
create_user(u, role) ==
    /\ u \notin DOMAIN users
    /\ users' = WithUser(u, [role |-> role, groups |-> sync_groups(role, {}),
                             email |-> S_empty])
    /\ AccountCall("create_user", u)

\* user.role = role; user.save()
CustomUser_save(u, role) ==
    /\ u \in DOMAIN users
    /\ users' = WithUser(u, [users[u] EXCEPT
                               !.role = role,
                               !.groups = sync_groups(role, users[u].groups)])
    /\ AccountCall("CustomUser_save", u)

\* user.save(update_fields=["is_active"]) on a loaded user: the role column
\* is not written, the group sync runs all the same
CustomUser_save_update_fields(u) ==
    /\ u \in DOMAIN users
    /\ users' = WithUser(u, [users[u] EXCEPT
                               !.groups = sync_groups(users[u].role, @)])
    /\ AccountCall("CustomUser_save_update_fields", u)

\* accounts.views.register (POST): form.save() with one of the three
\* choices, then save(update_fields=["is_active"])
register(u, role) ==
    /\ u \notin DOMAIN users
    /\ LET created == [role |-> role, groups |-> sync_groups(role, {}),
                       email |-> S_empty]
       IN  users' = WithUser(u, [created EXCEPT
                                   !.groups = sync_groups(role, @)])
    /\ AccountCall("register", u)

\* CustomUserAdmin change view: save_model() calls save(), which syncs the
\* groups; save_related() then runs form.save_m2m(), which sets the groups
\* to the ones submitted with the form
CustomUserAdmin_change(u, role, groups) ==
    /\ u \in DOMAIN users
    /\ LET saved == [users[u] EXCEPT
                        !.role = role,
                        !.groups = sync_groups(role, users[u].groups)]
       IN  users' = WithUser(u, [saved EXCEPT !.groups = groups])
    /\ AccountCall("CustomUserAdmin_change", u)

\* Values of PublisherMembership.member_role a caller may supply
MemberRoleValues == {S_Editor, S_Journalist, S_Reader, S_editor}

\* Model.clean_fields for member_role: one of MEMBER_ROLE_CHOICES
member_role_is_choice(member_role) == member_role \in {S_Editor, S_Journalist}

\* Fault: clean() checking only that the user is an Editor or a Journalist
PublisherMembership_clean_role_only(user_role, member_role) ==
    user_role \in {S_Editor, S_Journalist}

\* PublisherMembership.clean: TRUE when no ValidationError is raised
PublisherMembership_clean(user_role, member_role) ==
    /\ user_role \in {S_Editor, S_Journalist}
    /\ ~(member_role = S_Editor /\ user_role # S_Editor)
    /\ ~(member_role = S_Journalist /\ user_role # S_Journalist)

\* PublisherMembership(publisher, user, member_role).full_clean():
\* clean_fields, clean and validate_unique (unique_together); stored says
\* whether an equal row is in the table already
PublisherMembership_full_clean(p, u, member_role, stored) ==
    /\ u \in DOMAIN users
    /\ LET valid == /\ member_role_is_choice(member_role)
                    /\ PublisherMembership_clean(users[u].role, member_role)
                    /\ ~stored
       IN  resp' = Response("PublisherMembership_full_clean", "CALL", u,
                            member_role,
                            IF valid THEN "valid" ELSE "ValidationError",
                            [publisher |-> p, stored |-> stored])
    /\ sent' = <<>>
    /\ wrote' = FALSE
    /\ UNCHANGED <<store, now, inflight>>

InitAccounts ==
    /\ users = [u \in {} |-> S_empty]
    /\ area = "accounts"
    /\ articles = <<>>
    /\ next_pk = 1
    /\ now = 1
    /\ pub_subs = {}
    /\ j_subs = {}
    /\ newsletters = <<>>
    /\ next_nl = 1
    /\ inflight = None
    /\ sent = <<>>
    /\ resp = NoRequest
    /\ wrote = TRUE

NextAccounts ==
    \/ \E u \in AccountIds, role \in RoleValues :
          Serve({"accounts"}) /\ create_user(u, role)
    \/ \E u \in AccountIds, role \in RoleValues :
          Serve({"accounts"}) /\ CustomUser_save(u, role)
    \/ \E u \in AccountIds :
          Serve({"accounts"}) /\ CustomUser_save_update_fields(u)
    \/ \E u \in AccountIds, role \in RoleChoices :
          Serve({"accounts"}) /\ register(u, role)
    \/ \E u \in AccountIds, role \in RoleChoices, groups \in SUBSET RoleGroups :
          Serve({"accounts"}) /\ CustomUserAdmin_change(u, role, groups)
    \/ \E p \in PublisherIds, u \in AccountIds, r \in MemberRoleValues,
          stored \in BOOLEAN :
          Serve({"accounts"}) /\ PublisherMembership_full_clean(p, u, r, stored)

SpecAccounts == InitAccounts /\ [][NextAccounts]_vars

----------------------------------------------------------------------------
(* Registration and admin approval: the is_active column.  The register     *)
(* view runs outside a transaction, so the row form.save() commits is in    *)
(* the table, as the model default leaves it, until the view's second save; *)
(* another request (a second registration, the admin action) may run in     *)
(* between.  inflight is the set of accounts whose registration request is  *)
(* between its two saves.                                                   *)

\* CustomUserRegistrationForm.save, called by register on a POST of an
\* anonymous visitor: the fields of the form are set and user.save() inserts
\* the row; is_active is not a field of the form and keeps the default of
\* AbstractUser, True
CustomUserRegistrationForm_save(u, role, email) ==
    /\ u \notin DOMAIN users
    /\ u \notin inflight
    /\ users' = WithUser(u, [role |-> role, groups |-> sync_groups(role, {}),
                             email |-> email, is_active |-> TRUE])
    /\ inflight' = inflight \cup {u}
    /\ resp' = Response("CustomUserRegistrationForm_save", "POST", u, u,
                        "saved", NoData)
    /\ sent' = <<>>
    /\ wrote' = TRUE
    /\ UNCHANGED <<articles, next_pk, pub_subs, j_subs, newsletters, next_nl,
                   now, area>>

\* register after form.save(): user.is_active = (user.role == "Reader");
\* user.save(update_fields=["is_active"]), which writes the one column and
\* syncs the groups; a Reader is logged in and sent to the article list,
\* the others to the login page
register_is_active_update(u) ==
    /\ u \in inflight
    /\ u \in DOMAIN users
    /\ users' = WithUser(u, [users[u] EXCEPT
                               !.is_active = (users[u].role = S_Reader),
                               !.groups = sync_groups(users[u].role, @)])
    /\ inflight' = inflight \ {u}
    /\ resp' = Response("register", "POST", u, u,
                        IF users[u].role = S_Reader THEN "redirect"
                        ELSE "login_redirect", NoData)
    /\ sent' = <<>>
    /\ wrote' = TRUE
    /\ UNCHANGED <<articles, next_pk, pub_subs, j_subs, newsletters, next_nl,
                   now, area>>

\* approve_users(modeladmin, request, queryset):
\* queryset.filter(is_active=False).update(is_active=True), an UPDATE that
\* calls no save(); selected is the admin's selection
approve_users(selected) ==
    LET inactive == {x \in selected \cap DOMAIN users : ~users[x].is_active}
    IN  /\ users' = [x \in DOMAIN users |->
                        IF x \in inactive
                        THEN [users[x] EXCEPT !.is_active = TRUE]
                        ELSE users[x]]
        /\ resp' = Response("approve_users", "POST", Anonymous, 0, "ok",
                            [selected |-> selected,
                             updated |-> Cardinality(inactive)])
        /\ sent' = <<>>
        /\ wrote' = TRUE
        /\ UNCHANGED <<articles, next_pk, pub_subs, j_subs, newsletters,
                       next_nl, now, area, inflight>>

\* The e-mail values a registration form is submitted with
RegistrationEmails == {<<97>>, <<98>>}

InitRegistration ==
    /\ users = [u \in {} |-> S_empty]
    /\ area = "registration"
    /\ articles = <<>>
    /\ next_pk = 1
    /\ now = 1
    /\ pub_subs = {}
    /\ j_subs = {}
    /\ newsletters = <<>>
    /\ next_nl = 1
    /\ inflight = {}
    /\ sent = <<>>
    /\ resp = NoRequest
    /\ wrote = TRUE

NextRegistration ==
    \/ \E u \in AccountIds, role \in RoleChoices, email \in RegistrationEmails :
          CustomUserRegistrationForm_save(u, role, email)
    \/ \E u \in AccountIds : register_is_active_update(u)
    \/ \E selected \in SUBSET AccountIds : approve_users(selected)

SpecRegistration == InitRegistration /\ [][NextRegistration]_vars

----------------------------------------------------------------------------
(* Role changes among the other requests: a user who has submitted articles *)
(* or holds subscriptions is saved with another role (user.role = ...;      *)
(* user.save(), or the admin change form), and the submit and subscribe     *)
(* requests go on.  A behaviour follows one user through role changes: an   *)
(* author ("authors"), a subscribing reader ("readers") or a journalist     *)
(* readers subscribe to ("targets").                                        *)

RoleAreas == {"authors", "readers", "targets"}

\* The user whose role changes in the behaviour
RoleChanger == IF area = "readers" THEN "r1" ELSE "j1"

\* The groups the admin change form is submitted with: the selection it was
\* rendered with, or none
AdminGroups(u) == {users[u].groups, {}}

InitRoles ==
    /\ users = InitialUsers
    /\ area \in RoleAreas
    /\ articles = IF area = "authors" THEN <<>> ELSE PublishedArticles
    /\ next_pk = IF area = "authors" THEN 1 ELSE 3
    /\ now = 2
    /\ pub_subs = {}
    /\ j_subs = {}
    /\ newsletters = <<>>
    /\ next_nl = 1
    /\ inflight = None
    /\ sent = <<>>
    /\ resp = NoRequest
    /\ wrote = TRUE

\* The users who send requests while the roles change
RoleCallers == {"r1", "j1", "j2"}

NextRoles ==
    \/ \E role \in RoleValues :
          Serve(RoleAreas) /\ CustomUser_save(RoleChanger, role)
    \/ \E role \in RoleChoices, groups \in AdminGroups(RoleChanger) :
          Serve(RoleAreas) /\ CustomUserAdmin_change(RoleChanger, role, groups)
    \/ \E u \in RoleCallers, body \in ArticlePayloads :
          Serve({"authors"}) /\ ArticleListCreateAPIView_post(u, body)
    \/ \E u \in RoleCallers, body \in ArticlePayloads :
          Serve({"authors"}) /\ create_article(u, "POST", body)
    \/ \E u \in RoleCallers, p \in PublisherIds :
          Serve({"readers", "targets"})
          /\ PublisherSubscriptionListCreateAPIView_post(u, p)
    \/ \E u \in RoleCallers, j \in Journalists :
          Serve({"readers", "targets"})
          /\ JournalistSubscriptionListCreateAPIView_post(u, j)
    \/ \E u \in RoleCallers, pk \in ArticlePks :
          Serve({"readers", "targets"})
          /\ subscribe_journalist_from_article(u, pk, "POST")
    \/ \E u \in RoleCallers, pk \in ArticlePks :
          Serve({"readers", "targets"})
          /\ subscribe_publisher_from_article(u, pk, "POST")

SpecRoles == InitRoles /\ [][NextRoles]_vars

----------------------------------------------------------------------------
(* Two approve requests served at the same time.  Each request runs the     *)
(* statements of its handler in order; the statements of the two requests   *)
(* interleave at the database calls.  Here inflight holds both requests,    *)
(* each with its position (pc), the row it loaded, the article object it    *)
(* saved and its response status, and sent collects the messages of both.   *)

Clients == {1, 2}

\* The approve requests that may arrive: either handler, an editor (by role
\* or by group) or a journalist, either article
ConcurrentRequests ==
    [op : {"api_article_approve", "approve_article"}, method : {"POST"},
     user : {"e1", "g1", "j1"}, pk : ArticlePks,
     pc : {"received"}, loaded : {None}, article : {None},
     status : {"pending"}]

\* The permission check and get_object_or_404(Article, pk=pk)
approve_load(c) ==
    LET r == inflight[c]
        editor == IF r.op = "api_article_approve" THEN IsEditor(r.user)
                  ELSE _is_editor(r.user)
        status == IF ~editor THEN "forbidden"
                  ELSE IF r.pk \notin DOMAIN articles THEN "not_found"
                  ELSE "pending"
    IN  /\ r.pc = "received"
        /\ inflight' = [inflight EXCEPT
                          ![c].pc = IF status = "pending" THEN "loaded" ELSE "done",
                          ![c].status = status,
                          ![c].loaded = IF status = "pending"
                                        THEN Some(articles[r.pk]) ELSE None]
        /\ resp' = Response(r.op, r.method, r.user, r.pk, status, NoData)
        /\ wrote' = FALSE
        /\ UNCHANGED <<store, now, sent>>

\* Fault: a save that goes through only while the stored row is pending
approve_save_once(c) ==
    LET r == inflight[c]
        a == Approved(r.loaded[1], r.user)
    IN  /\ r.pc = "loaded"
        /\ now <= MaxClock
        /\ r.pk \in DOMAIN articles
        /\ IF articles[r.pk].approved
           THEN /\ inflight' = [inflight EXCEPT ![c].pc = "done",
                                                ![c].status = "conflict"]
                /\ resp' = Response(r.op, r.method, r.user, r.pk, "conflict", NoData)
                /\ wrote' = FALSE
                /\ UNCHANGED <<store, now, sent>>
           ELSE /\ articles' = [articles EXCEPT ![r.pk].approved = a.approved,
                                                ![r.pk].approved_at = a.approved_at,
                                                ![r.pk].approved_by = a.approved_by]
                /\ now' = now + 1
                /\ inflight' = [inflight EXCEPT ![c].pc = "saved",
                                                ![c].article = Some(a)]
                /\ resp' = Response(r.op, r.method, r.user, r.pk, "pending", NoData)
                /\ wrote' = TRUE
                /\ UNCHANGED <<users, next_pk, pub_subs, j_subs, newsletters,
                               next_nl, sent>>

\* article.approved = True; article.approved_at = timezone.now();
\* article.approved_by = request.user; article.save(update_fields=[...]):
\* the three columns of the stored row are overwritten, whatever they hold
approve_save(c) ==
    LET r == inflight[c]
        a == Approved(r.loaded[1], r.user)
    IN  /\ r.pc = "loaded"
        /\ now <= MaxClock
        /\ r.pk \in DOMAIN articles
        /\ articles' = [articles EXCEPT ![r.pk].approved = a.approved,
                                        ![r.pk].approved_at = a.approved_at,
                                        ![r.pk].approved_by = a.approved_by]
        /\ now' = now + 1
        /\ inflight' = [inflight EXCEPT ![c].pc = "saved", ![c].article = Some(a)]
        /\ resp' = Response(r.op, r.method, r.user, r.pk, "pending", NoData)
        /\ wrote' = TRUE
        /\ UNCHANGED <<users, next_pk, pub_subs, j_subs, newsletters, next_nl, sent>>

\* send_article_approved_email_to_subscribers(article) and the response
approve_notify(c, fail_at) ==
    LET r == inflight[c]
        status == IF fail_at # 0 THEN "server_error"
                  ELSE IF r.op = "api_article_approve" THEN "ok" ELSE "redirect"
    IN  /\ r.pc = "saved"
        /\ fail_at \in 0..sent_count(r.article[1])
        /\ sent' = sent \o SendLoop(r.pk, r.article[1], fail_at)
        /\ inflight' = [inflight EXCEPT ![c].pc = "done", ![c].status = status]
        /\ resp' = Response(r.op, r.method, r.user, r.pk, status, NoData)
        /\ wrote' = FALSE
        /\ UNCHANGED <<store, now>>

InitConcurrent ==
    /\ users = InitialUsers
    /\ area = "concurrency"
    /\ articles = SubmittedArticles
    /\ next_pk = MaxArticles + 1
    /\ now = 1
    /\ pub_subs = SeedPublisherSubscriptions
    /\ j_subs = SeedJournalistSubscriptions
    /\ newsletters = <<>>
    /\ next_nl = 1
    /\ inflight \in [Clients -> ConcurrentRequests]
    /\ sent = <<>>
    /\ resp = NoRequest
    /\ wrote = TRUE

NextConcurrent ==
    \/ \E c \in Clients : approve_load(c) /\ area' = area
    \/ \E c \in Clients : approve_save(c) /\ area' = area
    \/ \E c \in Clients, f \in 0..Cardinality(UserIds) :
          approve_notify(c, f) /\ area' = area

SpecConcurrent == InitConcurrent /\ [][NextConcurrent]_vars

----------------------------------------------------------------------------
(* The subscribe and unsubscribe actions of the article page one after      *)
(* another, whatever each of them answered: readers r1 and r2 and a         *)
(* journalist, on the article of publisher p1 by j1 and on j2's independent *)
(* article.                                                                 *)

InitRegistry ==
    /\ users = InitialUsers
    /\ area = "registry"
    /\ articles = PublishedArticles
    /\ next_pk = 3
    /\ now = 2
    /\ pub_subs = {}
    /\ j_subs = {}
    /\ newsletters = <<>>
    /\ next_nl = 1
    /\ inflight = None
    /\ sent = <<>>
    /\ resp = NoRequest
    /\ wrote = TRUE

NextRegistry ==
    \/ \E u \in RoleCallers \cup {"r2"}, pk \in ArticlePks :
          subscribe_journalist_from_article(u, pk, "POST") /\ area' = area
    \/ \E u \in RoleCallers \cup {"r2"}, pk \in ArticlePks :
          subscribe_publisher_from_article(u, pk, "POST") /\ area' = area
    \/ \E u \in RoleCallers \cup {"r2"}, pk \in ArticlePks :
          unsubscribe_journalist_from_article(u, pk, "POST") /\ area' = area
    \/ \E u \in RoleCallers \cup {"r2"}, pk \in ArticlePks :
          unsubscribe_publisher_from_article(u, pk, "POST") /\ area' = area

SpecRegistry == InitRegistry /\ [][NextRegistry]_vars

----------------------------------------------------------------------------
(* Two subscribe requests served at the same time.  Here pub_subs and       *)
(* j_subs hold the rows of the two tables in the order they were inserted,  *)
(* so that two equal rows are two rows; what keeps them apart is the unique *)
(* index of unique_together, checked by the database at each INSERT.        *)
(* inflight holds both requests, each with its position (pc), what its      *)
(* SELECT found (seen) and its response status.                             *)

PublisherSubscribeOps ==
    {"api_publisher_subscription_create", "subscribe_publisher_from_article"}
JournalistSubscribeOps ==
    {"api_journalist_subscription_create", "subscribe_journalist_from_article"}

\* The subscribe requests that may arrive: the REST endpoints with their
\* target in the body, the web actions on article 1, by a reader or by a
\* journalist
SubscribeRequests ==
    [op : PublisherSubscribeOps \cup JournalistSubscribeOps,
     user : {"r1", "r2", "j1"}, pk : {1},
     pc : {"received"}, seen : {FALSE}, status : {"pending"}]

\* The row a subscribe request asks for: the REST body names publisher p1 or
\* journalist j1, the web actions take them from the article
subscribe_row(r) ==
    CASE r.op = "api_publisher_subscription_create" -> <<"p1", r.user>>
      [] r.op = "api_journalist_subscription_create" -> <<"j1", r.user>>
      [] r.op = "subscribe_publisher_from_article" ->
            <<articles[r.pk].publisher[1], r.user>>
      [] r.op = "subscribe_journalist_from_article" ->
            <<articles[r.pk].author, r.user>>

\* The table a subscribe request writes to
subscribe_table(r) == IF r.op \in PublisherSubscribeOps THEN pub_subs ELSE j_subs

\* SELECT ... WHERE the pair matches: whether a row comes back
row_exists(table, row) == \E i \in 1..Len(table) : table[i] = row

\* What a step of a subscribe request leaves behind, the tables apart
SubscribeStep(c, pc, seen, status) ==
    /\ inflight' = [inflight EXCEPT ![c].pc = pc, ![c].seen = seen,
                                    ![c].status = status]
    /\ resp' = Response(inflight[c].op, "POST", inflight[c].user, inflight[c].pk,
                        status, NoData)
    /\ sent' = <<>>
    /\ UNCHANGED <<users, articles, next_pk, newsletters, next_nl, now>>

\* The permission check and the first look at the table: the get() of
\* get_or_create on the web, the serializer's validation over REST (which
\* answers 400 for a row it finds, when it looks at all)
subscribe_select(c) ==
    LET r == inflight[c]
        rest == r.op \in {"api_publisher_subscription_create",
                          "api_journalist_subscription_create"}
        permitted == IF rest THEN IsReader(r.user) ELSE _is_reader(r.user)
        found == row_exists(subscribe_table(r), subscribe_row(r))
    IN  /\ r.pc = "received"
        /\ wrote' = FALSE
        /\ UNCHANGED <<pub_subs, j_subs>>
        /\ IF ~permitted
           THEN SubscribeStep(c, "done", FALSE, "forbidden")
           ELSE IF ~found
           THEN SubscribeStep(c, "selected", FALSE, "pending")
           ELSE IF ~rest
           THEN SubscribeStep(c, "done", TRUE, "redirect")
           ELSE \E s \in DuplicateStatuses :
                   IF s = "bad_request"
                   THEN SubscribeStep(c, "done", TRUE, "bad_request")
                   ELSE SubscribeStep(c, "selected", TRUE, "pending")

\* Fault: tables without the unique index, every INSERT going through
subscribe_insert_no_unique(c) ==
    LET r == inflight[c]
        rest == r.op \in {"api_publisher_subscription_create",
                          "api_journalist_subscription_create"}
        row == subscribe_row(r)
    IN  /\ r.pc = "selected"
        /\ wrote' = TRUE
        /\ IF r.op \in PublisherSubscribeOps
           THEN pub_subs' = Append(pub_subs, row) /\ j_subs' = j_subs
           ELSE j_subs' = Append(j_subs, row) /\ pub_subs' = pub_subs
        /\ SubscribeStep(c, "done", r.seen, IF rest THEN "created" ELSE "redirect")

\* The INSERT: create() inside get_or_create, serializer.save() over REST.
\* The unique index refuses a pair that is stored by now (IntegrityError):
\* get_or_create catches it and returns the stored row, the REST view lets
\* it through as a 500.
subscribe_insert(c) ==
    LET r == inflight[c]
        rest == r.op \in {"api_publisher_subscription_create",
                          "api_journalist_subscription_create"}
        row == subscribe_row(r)
    IN  /\ r.pc = "selected"
        /\ IF row_exists(subscribe_table(r), row)
           THEN /\ wrote' = FALSE
                /\ UNCHANGED <<pub_subs, j_subs>>
                /\ SubscribeStep(c, "done", r.seen,
                                 IF rest THEN "server_error" ELSE "redirect")
           ELSE /\ wrote' = TRUE
                /\ IF r.op \in PublisherSubscribeOps
                   THEN pub_subs' = Append(pub_subs, row) /\ j_subs' = j_subs
                   ELSE j_subs' = Append(j_subs, row) /\ pub_subs' = pub_subs
                /\ SubscribeStep(c, "done", r.seen,
                                 IF rest THEN "created" ELSE "redirect")

InitSubscribe ==
    /\ users = InitialUsers
    /\ area = "subscribe_concurrency"
    /\ articles = PublishedArticles
    /\ next_pk = 3
    /\ now = 2
    /\ pub_subs = <<>>
    /\ j_subs = <<>>
    /\ newsletters = <<>>
    /\ next_nl = 1
    /\ inflight \in [Clients -> SubscribeRequests]
    /\ sent = <<>>
    /\ resp = NoRequest
    /\ wrote = TRUE

NextSubscribe ==
    \/ \E c \in Clients : subscribe_select(c) /\ area' = area
    \/ \E c \in Clients : subscribe_insert(c) /\ area' = area

SpecSubscribe == InitSubscribe /\ [][NextSubscribe]_vars

----------------------------------------------------------------------------
(* The vocabulary of the properties *)

\* The effective role of a principal: the role attribute, trimmed and matched
\* without regard to case against the three roles; failing that, the role
\* group the principal belongs to; failing that, none.
EffectiveRole(u) ==
    IF ~is_authenticated(u) THEN "none"
    ELSE LET r == Lower(Strip(users[u].role)) IN
         IF r = S_reader THEN "Reader"
         ELSE IF r = S_journalist THEN "Journalist"
         ELSE IF r = S_editor THEN "Editor"
         ELSE IF users[u].groups \cap RoleGroups # {}
         THEN CHOOSE g \in RoleGroups : g \in users[u].groups
         ELSE "none"

\* The responses that are authorization failures
Denied == {"unauthorized", "forbidden", "login_redirect"}

ApproveOps == {"api_article_approve", "approve_article"}
RejectOps == {"api_article_reject", "reject_article"}
SubmitOps == {"api_article_create", "create_article"}

----------------------------------------------------------------------------
(* Properties *)

C2_ApproveStoresThenNotifiesOnce ==
    [][/\ (inflight = None /\ inflight' # None) =>
            LET r == inflight'[1] IN
            /\ r.op \in ApproveOps
            /\ EffectiveRole(r.user) = "Editor"
            /\ r.pk \in DOMAIN articles
            /\ articles'[r.pk].approved = TRUE
            /\ articles'[r.pk].approved_at # None
            /\ articles'[r.pk].approved_by = Some(r.user)
            /\ sent' = <<>>
       /\ inflight # None =>
            LET r == inflight[1] IN
            /\ inflight' = None
            /\ articles' = articles
            /\ articles[r.pk].approved
            /\ articles[r.pk].approved_by = Some(r.user)
            /\ resp'.op = r.op /\ resp'.user = r.user /\ resp'.pk = r.pk
            /\ \A i \in 1..Len(sent') : sent'[i].article = r.pk
            /\ \A i, j \in 1..Len(sent') :
                  i # j => sent'[i].recipient_list # sent'[j].recipient_list
            /\ resp'.status # "server_error" =>
                  Len(sent') = sent_count(articles[r.pk])
       /\ sent' # <<>> => inflight # None]_vars

\* C2 witness: e1's approve of article 1 succeeded and two messages went out
C2_Witness ==
    /\ area = "editorial"
    /\ resp.op = "api_article_approve"
    /\ resp.status = "ok"
    /\ resp.pk \in DOMAIN articles
    /\ articles[resp.pk].approved
    /\ articles[resp.pk].approved_by = Some(resp.user)
    /\ Len(sent) = 2

\* The recipients C3 speaks of: the trimmed, non-blank addresses of the
\* readers subscribed to the article's publisher, if it has one, or to its
\* author
C3_R(a) ==
    LET readers == {r \in UserIds :
                      \/ a.publisher # None /\ <<a.publisher[1], r>> \in pub_subs
                      \/ <<a.author, r>> \in j_subs}
    IN  {Strip(users[r].email) : r \in readers} \ {<<>>}

\* C3: after the dispatcher ran on an article, the messages sent are one per
\* address of R and no other, each with exactly one recipient, in ascending
\* lexicographic order (so no address twice), and the value returned is |R|;
\* with R empty nothing is sent and 0 is returned.
C3_NotifyExactlyR ==
    resp.op = "send_article_approved_email_to_subscribers" =>
        LET R == C3_R(articles[resp.pk]) IN
        /\ \A i \in 1..Len(sent) : Len(sent[i].recipient_list) = 1
        /\ {sent[i].recipient_list[1] : i \in 1..Len(sent)} = R
        /\ Len(sent) = Cardinality(R)
        /\ \A i \in 1..(Len(sent) - 1) :
              StrLess(sent[i].recipient_list[1], sent[i + 1].recipient_list[1])
        /\ resp.data.sent_count = Cardinality(R)
        /\ R = {} => (sent = <<>> /\ resp.data.sent_count = 0)

\* C3 witness: r1 follows both the publisher and the author of article 1, r2
\* follows the author and has a blank address, and one message went out
C3_Witness ==
    /\ resp.op = "send_article_approved_email_to_subscribers"
    /\ resp.pk = 1
    /\ <<"p1", "r1">> \in pub_subs /\ <<"j1", "r1">> \in j_subs
    /\ <<"j1", "r2">> \in j_subs
    /\ articles[1].publisher = Some("p1")
    /\ Strip(users["r2"].email) = <<>>
    /\ users["r1"].email = <<98, 32>>
    /\ Len(sent) = 1
    /\ sent[1].recipient_list = <<<<98>>>>

\* The articles C4 lets a principal see
C4_Visible(u) ==
    IF EffectiveRole(u) = "Editor" THEN DOMAIN articles
    ELSE IF EffectiveRole(u) = "Journalist"
    THEN {i \in DOMAIN articles : articles[i].approved \/ articles[i].author = u}
    ELSE {i \in DOMAIN articles : articles[i].approved}

\* C4: the REST article list answers an authenticated principal with exactly
\* the articles its effective role (role attribute, else role group) lets it
\* see, narrowed by the publisher and author filters of the request: all
\* articles for an Editor, the approved ones and the principal's own
\* unapproved ones for a Journalist, the approved ones for anyone else.
C4_ListByEffectiveRole ==
    (resp.op = "api_article_list" /\ resp.status = "ok") =>
        {resp.data.results[i] : i \in 1..Len(resp.data.results)}
          = {i \in C4_Visible(resp.user) :
                /\ resp.data.filters[1] # NoFilter =>
                      articles[i].publisher = Some(resp.data.filters[1])
                /\ resp.data.filters[2] # NoFilter =>
                      articles[i].author = resp.data.filters[2]}

C6_SubmitStoresPendingOwnArticle ==
    [][/\ \A pk \in DOMAIN articles' \ DOMAIN articles :
            /\ resp'.op \in SubmitOps
            /\ resp'.pk = pk
            /\ articles'[pk].approved = FALSE
            /\ articles'[pk].approved_at = None
            /\ articles'[pk].approved_by = None
            /\ articles'[pk].author = resp'.user
       /\ (resp'.op \in SubmitOps /\ resp'.status \in {"created", "redirect"}
             /\ resp'.method = "POST") =>
            /\ resp'.pk \in DOMAIN articles' \ DOMAIN articles
            /\ articles'[resp'.pk].approved = FALSE
            /\ articles'[resp'.pk].author = resp'.user]_vars

\* C6 witness: j1 posted the body that names j2 as author and sets the three
\* approval fields (the only body titled t1 without a publisher), and the row
\* stored is j1's and pending
C6_Witness ==
    /\ resp.op \in SubmitOps
    /\ resp.status \in {"created", "redirect"}
    /\ resp.user = "j1"
    /\ resp.pk \in DOMAIN articles
    /\ articles[resp.pk].title = "t1"
    /\ articles[resp.pk].publisher = None
    /\ articles[resp.pk].author = "j1"
    /\ ~articles[resp.pk].approved

C8_RejectDeletesExactlyA ==
    [][/\ (resp'.op \in RejectOps /\ resp'.method = "POST"
             /\ resp'.status \in {"ok", "redirect"}) =>
            /\ EffectiveRole(resp'.user) = "Editor"
            /\ resp'.pk \in DOMAIN articles
            /\ DOMAIN articles' = DOMAIN articles \ {resp'.pk}
            /\ \A i \in DOMAIN articles' : articles'[i] = articles[i]
            /\ \A n \in DOMAIN newsletters' :
                  resp'.pk \notin newsletters'[n].articles
       /\ \A pk \in 1..(next_pk - 1) :
            pk \notin DOMAIN articles => pk \notin DOMAIN articles'
       /\ next_pk' >= next_pk]_vars

\* C8 witness: article 1 was rejected over the REST API and article 2 is
\* still stored
C8_Witness ==
    /\ resp.op = "api_article_reject"
    /\ resp.status = "ok"
    /\ resp.pk = 1
    /\ DOMAIN articles = {2}

WebSubscriptionOps ==
    {"subscribe_journalist_from_article", "subscribe_publisher_from_article",
     "unsubscribe_journalist_from_article", "unsubscribe_publisher_from_article"}

\* The requests C9 speaks of: r asks for one of the mutating operations
C9_Mutating(r) ==
    \/ r.op \in ApproveOps \cup RejectOps
    \/ r.op \in {"api_article_update", "api_article_delete"}
    \/ r.op = "api_newsletter_create"
    \/ r.op \in NewsletterRoutes /\ r.method # "GET"
    \/ r.op \in {"api_publisher_subscription_create",
                 "api_journalist_subscription_create",
                 "api_publisher_subscription_delete",
                 "api_journalist_subscription_delete"}
    \/ r.op \in WebSubscriptionOps /\ r.method = "POST"

\* The caller of r is anonymous, or the access predicate of r's operation is
\* false for the caller in the current state
C9_PredicateFalse(r) ==
    LET role == EffectiveRole(r.user) IN
    \/ ~is_authenticated(r.user)
    \/ r.op \in ApproveOps \cup RejectOps /\ role # "Editor"
    \/ /\ r.op \in {"api_article_update", "api_article_delete"}
       /\ r.pk \in DOMAIN articles
       /\ articles[r.pk].author # r.user /\ role # "Editor"
    \/ r.op = "api_newsletter_create" /\ role \notin {"Journalist", "Editor"}
    \/ /\ r.op \in NewsletterRoutes
       /\ r.pk \in DOMAIN newsletters
       /\ newsletters[r.pk].author # r.user /\ role # "Editor"
    \/ /\ r.op \in {"api_publisher_subscription_create",
                    "api_journalist_subscription_create"} \cup WebSubscriptionOps
       /\ role # "Reader"
    \/ /\ r.op = "api_publisher_subscription_delete"
       /\ r.pk \in pub_subs
       /\ r.pk[2] # r.user /\ role # "Editor"
    \/ /\ r.op = "api_journalist_subscription_delete"
       /\ r.pk \in j_subs
       /\ r.pk[2] # r.user /\ role # "Editor"

C10_Addressed(r) ==
    IF r.op \in {"api_article_update", "api_article_delete"}
    THEN IF r.pk \in DOMAIN articles THEN Some(articles[r.pk].author) ELSE None
    ELSE IF r.op \in NewsletterRoutes /\ r.method # "GET"
    THEN IF r.pk \in DOMAIN newsletters THEN Some(newsletters[r.pk].author)
         ELSE None
    ELSE IF r.op = "api_publisher_subscription_delete"
    THEN IF r.pk \in pub_subs THEN Some(r.pk[2]) ELSE None
    ELSE IF r.op = "api_journalist_subscription_delete"
    THEN IF r.pk \in j_subs THEN Some(r.pk[2]) ELSE None
    ELSE None

C11_Requested(r) ==
    IF r.op = "api_publisher_subscription_create"
    THEN Some(<<"publisher", <<r.pk, r.user>>>>)
    ELSE IF r.op = "api_journalist_subscription_create"
    THEN Some(<<"journalist", <<r.pk, r.user>>>>)
    ELSE IF r.op = "subscribe_journalist_from_article" /\ r.method = "POST"
            /\ r.pk \in DOMAIN articles
    THEN Some(<<"journalist", <<articles[r.pk].author, r.user>>>>)
    ELSE IF r.op = "subscribe_publisher_from_article" /\ r.method = "POST"
            /\ r.pk \in DOMAIN articles /\ articles[r.pk].publisher # None
    THEN Some(<<"publisher", <<articles[r.pk].publisher[1], r.user>>>>)
    ELSE None

\* C11: on every subscribe path (the two web actions, POST
\* /publisher-subscriptions/ and POST /journalist-subscriptions/) a reader
\* who asks for a subscription they already hold gets no error (neither 400
\* nor 500), is told "already subscribed" on the web paths, and the
\* subscription tables are what they were.
C11_SubscribeTwiceIsIdempotent ==
    [][(C11_Requested(resp') # None
          /\ LET q == C11_Requested(resp')[1] IN
             IF q[1] = "publisher" THEN q[2] \in pub_subs ELSE q[2] \in j_subs)
        => /\ resp'.status \in {"ok", "created", "redirect"}
           /\ resp'.op \in WebSubscriptionOps => resp'.data = "already subscribed"
           /\ pub_subs' = pub_subs
           /\ j_subs' = j_subs]_vars

SaveOps ==
    {"create_user", "CustomUser_save", "CustomUser_save_update_fields",
     "register", "CustomUserAdmin_change"}

\* The role groups a role value names
C12_Named(role) ==
    {g \in RoleGroups :
        \/ g = "Reader" /\ role = S_Reader
        \/ g = "Journalist" /\ role = S_Journalist
        \/ g = "Editor" /\ role = S_Editor}

\* C12: after every save of a user (a creation, a registration, a save with
\* a changed role, a partial save, a change through the admin), whatever the
\* value of the role attribute, the role groups the user belongs to are
\* exactly the group the user's current role names.
C12_GroupsFollowRoleAfterSave ==
    resp.op \in SaveOps =>
        users[resp.user].groups \cap RoleGroups = C12_Named(users[resp.user].role)

\* C13: an approve (POST) by an Editor on a stored article that is already
\* approved is accepted like a first approve and not answered with an error;
\* the row stays approved, its approved_at and approved_by become the time
\* and the caller of this call, no other field of it and no other row
\* changes; and the call ends in success when every send_mail call returns.
C13_ReapproveRefreshesTimeAndActor ==
    [][/\ (inflight = None /\ resp'.op \in ApproveOps /\ resp'.method = "POST"
             /\ EffectiveRole(resp'.user) = "Editor"
             /\ resp'.pk \in DOMAIN articles /\ articles[resp'.pk].approved) =>
            /\ resp'.status = "pending"
            /\ inflight' # None
            /\ DOMAIN articles' = DOMAIN articles
            /\ \A i \in DOMAIN articles \ {resp'.pk} : articles'[i] = articles[i]
            /\ articles'[resp'.pk] =
                  [articles[resp'.pk] EXCEPT !.approved_at = Some(now),
                                             !.approved_by = Some(resp'.user)]
            /\ articles'[resp'.pk].approved
       /\ (inflight # None /\ Len(sent') = sent_count(inflight[1].article)) =>
            resp'.status \in {"ok", "redirect"}]_vars

\* C13 witness: article 1, approved at time 1, was approved again at time 2
\* by g1 (article 2 has never been approved), and the call succeeded
C13_Witness ==
    /\ resp.op \in ApproveOps
    /\ resp.status \in {"ok", "redirect"}
    /\ resp.user = "g1"
    /\ resp.pk = 1
    /\ DOMAIN articles = {1, 2}
    /\ ~articles[2].approved
    /\ articles[1].approved
    /\ articles[1].approved_at = Some(2)
    /\ articles[1].approved_by = Some("g1")

C16_MembershipValidIffRoleMatches ==
    resp.op = "PublisherMembership_full_clean" =>
        LET role == users[resp.user].role
            matches == role = resp.pk /\ role \in {S_Editor, S_Journalist}
        IN  /\ resp.status = "valid" => matches
            /\ (matches /\ ~resp.data.stored) => resp.status = "valid"
            /\ resp.status \in {"valid", "ValidationError"}

\* C16 witness: an Editor membership for a Journalist user was rejected
C16_Witness ==
    /\ resp.op = "PublisherMembership_full_clean"
    /\ users[resp.user].role = S_Journalist
    /\ resp.pk = S_Editor
    /\ ~resp.data.stored
    /\ resp.status = "ValidationError"

C18_ApprovedStaysApproved ==
    [][/\ \A pk \in DOMAIN articles \cap DOMAIN articles' :
            articles[pk].approved => articles'[pk].approved
       /\ resp'.op = "api_article_update" =>
            /\ DOMAIN articles' = DOMAIN articles
            /\ \A pk \in DOMAIN articles :
                  /\ pk # resp'.pk => articles'[pk] = articles[pk]
                  /\ articles'[pk].author = articles[pk].author
                  /\ articles'[pk].approved = articles[pk].approved
                  /\ articles'[pk].approved_at = articles[pk].approved_at
                  /\ articles'[pk].approved_by = articles[pk].approved_by]_vars

\* C18 witness: the approved article 1 (seeded with title t2 and publisher
\* p1) was updated with the body that also names another author and another
\* approval time: title and publisher changed, the rest did not
C18_Witness ==
    /\ resp.op = "api_article_update"
    /\ resp.status = "ok"
    /\ resp.pk = 1
    /\ 1 \in DOMAIN articles
    /\ articles[1].title = "t1"
    /\ articles[1].publisher = None
    /\ articles[1].author = "j1"
    /\ articles[1].approved
    /\ articles[1].approved_at # Some(0)

\* The messages sent about article pk to address e
C19_Received(pk, e) ==
    Cardinality({i \in 1..Len(sent) :
                    sent[i].article = pk /\ sent[i].recipient_list = <<e>>})

\* C19: of two approve requests served at the same time, none is held back
\* or turned away because of the other: a request by an Editor for a stored
\* article that has ended has ended in success, or in a 500 of the mail
\* transport.  When both
\* have succeeded on the same article, the stored approved_at and approved_by
\* are those of the request that saved last, and each request has sent its
\* own message to every subscriber address, so every address has received
\* two messages for the one article.
C19_ConcurrentApprovesBothSucceed ==
    /\ \A c \in Clients :
          (inflight[c].pc = "done" /\ EffectiveRole(inflight[c].user) = "Editor"
             /\ inflight[c].pk \in DOMAIN articles)
             => inflight[c].status \in {"ok", "redirect", "server_error"}
    /\ \A c, d \in Clients :
          LET r == inflight[c]
              q == inflight[d]
          IN  (c # d /\ r.pk = q.pk
                 /\ r.pc = "done" /\ r.status \in {"ok", "redirect"}
                 /\ q.pc = "done" /\ q.status \in {"ok", "redirect"}
                 /\ r.article[1].approved_at[1] < q.article[1].approved_at[1])
              => /\ articles[q.pk].approved
                 /\ articles[q.pk].approved_at = q.article[1].approved_at
                 /\ articles[q.pk].approved_by = Some(q.user)
                 /\ \A e \in C3_R(articles[q.pk]) : C19_Received(q.pk, e) = 2
                 /\ Len(sent) = 2 * Cardinality(C3_R(articles[q.pk]))

\* C19 witness: e1 and g1 both loaded article 1 while it was pending, both
\* succeeded, g1 saved last and is the stored approver, and the two
\* subscriber addresses got two messages each
C19_Witness ==
    /\ area = "concurrency"
    /\ inflight[1].user = "e1" /\ inflight[2].user = "g1"
    /\ inflight[1].pk = 1 /\ inflight[2].pk = 1
    /\ inflight[1].pc = "done" /\ inflight[2].pc = "done"
    /\ inflight[1].status \in {"ok", "redirect"}
    /\ inflight[2].status \in {"ok", "redirect"}
    /\ ~inflight[1].loaded[1].approved
    /\ ~inflight[2].loaded[1].approved
    /\ articles[1].approved_by = Some("g1")
    /\ Len(sent) = 4
    /\ C19_Received(1, <<97>>) = 2
    /\ C19_Received(1, <<98>>) = 2

\* C20: when the dispatcher runs for an approve, the messages handed to the
\* transport are, in ascending order and each once, the first addresses of
\* the article's recipients; the approve is answered with success exactly
\* when all of them were sent, and with a failure (500) exactly when the
\* transport failed on one, in which case no later recipient was attempted;
\* nothing of the request is kept for a retry, and no other step sends
\* anything.
C20_TransportFailureFailsApprove ==
    [][/\ inflight # None =>
            LET r == inflight[1]
                R == C3_R(articles[r.pk])
                to == [i \in 1..Len(sent') |-> sent'[i].recipient_list[1]]
            IN  /\ \A i \in 1..Len(to) : to[i] \in R /\ sent'[i].article = r.pk
                /\ \A i \in 1..(Len(to) - 1) : StrLess(to[i], to[i + 1])
                /\ \A e \in R, i \in 1..Len(to) :
                      StrLess(e, to[i]) => \E j \in 1..Len(to) : to[j] = e
                /\ resp'.status \in {"ok", "redirect"} <=> Len(to) = Cardinality(R)
                /\ resp'.status = "server_error" <=> Len(to) < Cardinality(R)
                /\ resp'.op = r.op /\ resp'.user = r.user /\ resp'.pk = r.pk
                /\ inflight' = None
       /\ inflight = None => (sent' = <<>> \/ sent' = sent)]_vars

\* C20 witness: the approve of article 1, which has two recipients, was
\* answered 500 after one message; the approval itself is stored
C20_Witness ==
    /\ area = "editorial"
    /\ resp.op \in ApproveOps
    /\ resp.status = "server_error"
    /\ resp.pk = 1
    /\ Len(sent) = 1
    /\ Cardinality(C3_R(articles[1])) = 2
    /\ inflight = None
    /\ articles[1].approved

\* The addresses the messages of a sequence went to, in order
C21_To(msgs) == [i \in 1..Len(msgs) |-> msgs[i].recipient_list[1]]

\* s is a proper prefix of t
C21_ProperPrefix(s, t) == Len(s) < Len(t) /\ s = SubSeq(t, 1, Len(s))

\* C21: an approve whose dispatcher run fails on the k-th recipient leaves
\* the article stored as approved, with a time and approved_by = the caller
\* (the failing step changes no row), the messages sent are those to the first
\* k - 1 recipients in ascending order, and nothing of the request is kept.
\* An approve of the same article by an Editor that follows is accepted; the
\* recipients it works through begin with the k - 1 addresses already
\* messaged, and when none of its send_mail calls fails it sends to every
\* recipient, those k - 1 among them.
C21_FailedApproveStaysApproved ==
    [][/\ (inflight # None /\ resp'.status = "server_error") =>
            LET r == inflight[1] IN
            /\ store' = store
            /\ articles'[r.pk].approved
            /\ articles'[r.pk].approved_at # None
            /\ articles'[r.pk].approved_by = Some(r.user)
            /\ C21_ProperPrefix(C21_To(sent'), Sorted(C3_R(articles[r.pk])))
            /\ inflight' = None
       /\ (inflight = None /\ resp.op \in ApproveOps /\ resp.status = "server_error"
             /\ resp'.op \in ApproveOps /\ resp'.method = "POST"
             /\ resp'.pk = resp.pk /\ EffectiveRole(resp'.user) = "Editor") =>
            /\ resp'.status = "pending"
            /\ inflight' # None
            /\ inflight'[1].pk = resp.pk
            /\ <<users', pub_subs', j_subs'>> = <<users, pub_subs, j_subs>>
            /\ C21_ProperPrefix(C21_To(sent), Sorted(C3_R(inflight'[1].article)))
       /\ (inflight # None /\ resp'.status # "server_error") =>
            C21_To(sent') = Sorted(C3_R(inflight[1].article))]_vars

\* C21 witness: g1's approve of article 1 on the web failed on the second of
\* its two recipients: the article is stored as approved by g1, and the one
\* message sent went to the first address, "a"
C21_Witness ==
    /\ area = "editorial"
    /\ resp.op = "approve_article"
    /\ resp.user = "g1"
    /\ resp.status = "server_error"
    /\ resp.pk = 1
    /\ articles[1].approved
    /\ articles[1].approved_by = Some("g1")
    /\ articles[1].approved_at = Some(1)
    /\ C21_To(sent) = <<<<97>>>>
    /\ Sorted(C3_R(articles[1])) = <<<<97>>, <<98>>>>

ListOps ==
    {"api_article_list", "api_article_subscribed", "api_article_pending",
     "article_list", "approval_queue"}

\* The articles of which the response in resp shows a field
C22_Returned ==
    IF resp.status # "ok" THEN {}
    ELSE IF resp.op \in {"api_article_detail", "article_detail"} THEN {resp.pk}
    ELSE IF resp.op \in ListOps
    THEN {resp.data.results[i] : i \in 1..Len(resp.data.results)}
    ELSE IF resp.op \in NewsletterRoutes /\ resp.method = "GET"
    THEN DOMAIN resp.data.articles
    ELSE {}

\* C22: whatever a read operation (article list, article detail, pending
\* queue, subscribed feed, newsletter list, newsletter detail with its nested
\* articles) answers, every unapproved article it shows a field of is the
\* caller's own, or the caller's effective role is Editor.
C22_PendingVisibleOnlyToAuthorAndEditors ==
    \A pk \in C22_Returned :
        ~articles[pk].approved =>
            \/ articles[pk].author = resp.user
            \/ EffectiveRole(resp.user) = "Editor"

\* C23: in every state, whatever articles were submitted (over the REST API
\* or the web form) and whatever role a user was saved with afterwards, the
\* author of every stored article holds the Journalist role.
C23_AuthorsAreJournalists ==
    \A pk \in DOMAIN articles :
        EffectiveRole(articles[pk].author) = "Journalist"

\* C24: in every state, whichever path stored the row (the web subscribe
\* actions, which take the article's author or publisher as target, or the
\* REST create endpoints), the reader of every publisher subscription and of
\* every journalist subscription holds the Reader role and the journalist of
\* every journalist subscription holds the Journalist role.
C24_SubscriptionRolesHold ==
    /\ \A row \in pub_subs : EffectiveRole(row[2]) = "Reader"
    /\ \A row \in j_subs :
          /\ EffectiveRole(row[2]) = "Reader"
          /\ EffectiveRole(row[1]) = "Journalist"

\* C25: in every state of every interleaving of two subscribe requests (the
\* same reader asking twice for the same target among them), no two rows of
\* the publisher subscription table have the same (publisher, reader) and no
\* two rows of the journalist subscription table the same (journalist,
\* reader).
C25_AtMostOneRowPerPair ==
    /\ \A i, j \in 1..Len(pub_subs) : pub_subs[i] = pub_subs[j] => i = j
    /\ \A i, j \in 1..Len(j_subs) : j_subs[i] = j_subs[j] => i = j

\* C25 witness: r1 asked twice for publisher p1 on the web action, both
\* requests looked before either had inserted and went on to INSERT, both
\* have ended, and one row is stored
C25_Witness ==
    /\ area = "subscribe_concurrency"
    /\ \A c \in Clients :
          /\ inflight[c].op = "subscribe_publisher_from_article"
          /\ inflight[c].user = "r1"
          /\ inflight[c].pc = "done"
          /\ inflight[c].status = "redirect"
          /\ ~inflight[c].seen
    /\ pub_subs = <<<<"p1", "r1">>>>

\* C26: for every principal, each role check decides by the effective role
\* (the role attribute, trimmed and matched without regard to case against
\* the three roles; the same-named group only when the attribute matches
\* none), so that the web checks and the REST checks agree: _is_editor with
\* IsEditor, _is_journalist with IsJournalist, _is_reader with IsReader.
C26_RoleChecksAgree ==
    \A u \in UserIds :
        /\ IsEditor(u) <=> EffectiveRole(u) = "Editor"
        /\ IsJournalist(u) <=> EffectiveRole(u) = "Journalist"
        /\ IsReader(u) <=> EffectiveRole(u) = "Reader"
        /\ _is_editor(u) <=> IsEditor(u)
        /\ _is_journalist(u) <=> IsJournalist(u)
        /\ _is_reader(u) <=> IsReader(u)

SubscribeOps ==
    {"subscribe_journalist_from_article", "subscribe_publisher_from_article"}
UnsubscribeOps ==
    {"unsubscribe_journalist_from_article", "unsubscribe_publisher_from_article"}

\* The target a web subscribe or unsubscribe request r names, when it has
\* one: the article's author, or the article's publisher
C27_Target(r) ==
    IF r.pk \notin DOMAIN articles THEN None
    ELSE IF r.op \in {"subscribe_journalist_from_article",
                      "unsubscribe_journalist_from_article"}
    THEN Some(articles[r.pk].author)
    ELSE articles[r.pk].publisher

\* Request r is about journalist subscriptions
C27_OfJournalist(r) ==
    r.op \in {"subscribe_journalist_from_article",
              "unsubscribe_journalist_from_article"}

\* q is the unsubscribe of what r subscribed to: same reader, same kind,
\* same target
C27_Undoes(q, r) ==
    /\ r.op \in SubscribeOps /\ q.op \in UnsubscribeOps
    /\ C27_OfJournalist(q) = C27_OfJournalist(r)
    /\ q.user = r.user
    /\ EffectiveRole(q.user) = "Reader"
    /\ C27_Target(r) # None
    /\ C27_Target(q) = C27_Target(r)

\* C27 as stated, its last part: a subscribe followed by the unsubscribe of
\* the same reader and target leaves the subscription tables as they were
\* before the subscribe (which, when the subscribe answered "already
\* subscribed", are the tables as they are after it).
C27_SubscribeUnsubscribeRestores ==
    [][C27_Undoes(resp', resp) =>
          LET row == <<C27_Target(resp)[1], resp.user>>
              before_pub == IF resp.data = "now subscribed" /\ ~C27_OfJournalist(resp)
                            THEN pub_subs \ {row} ELSE pub_subs
              before_j == IF resp.data = "now subscribed" /\ C27_OfJournalist(resp)
                          THEN j_subs \ {row} ELSE j_subs
          IN  pub_subs' = before_pub /\ j_subs' = before_j]_vars

\* C27: an unsubscribe by a Reader that names a target deletes the (target,
\* reader) row of its kind when it is stored and reports the deletion, and
\* otherwise deletes nothing and reports "not subscribed"; either way every
\* other row (other readers, other targets, the table of the other kind) and
\* every other table is what it was.  A subscribe that reports a new
\* subscription has added exactly that row, so that the unsubscribe that
\* follows it restores the tables as they were before it; one that reports
\* "already subscribed" has changed nothing, and the unsubscribe that follows
\* it removes the row that was there before.
C27_UnsubscribeDeletesExactlyOneRow ==
    [][/\ (resp'.op \in UnsubscribeOps /\ resp'.method = "POST"
             /\ EffectiveRole(resp'.user) = "Reader" /\ C27_Target(resp') # None) =>
            LET row == <<C27_Target(resp')[1], resp'.user>>
                table == IF C27_OfJournalist(resp') THEN j_subs ELSE pub_subs
                table_after == IF C27_OfJournalist(resp') THEN j_subs' ELSE pub_subs'
                other == IF C27_OfJournalist(resp') THEN pub_subs ELSE j_subs
                other_after == IF C27_OfJournalist(resp') THEN pub_subs' ELSE j_subs'
            IN  /\ resp'.status = "redirect"
                /\ row \in table =>
                      table_after = table \ {row} /\ resp'.data = "unsubscribed"
                /\ row \notin table =>
                      table_after = table /\ resp'.data = "not subscribed"
                /\ other_after = other
                /\ <<users', articles', next_pk', newsletters', next_nl'>>
                      = <<users, articles, next_pk, newsletters, next_nl>>
       /\ (resp'.op \in SubscribeOps /\ resp'.status = "redirect"
             /\ resp'.data \in {"now subscribed", "already subscribed"}) =>
            LET row == <<C27_Target(resp')[1], resp'.user>>
                table == IF C27_OfJournalist(resp') THEN j_subs ELSE pub_subs
                table_after == IF C27_OfJournalist(resp') THEN j_subs' ELSE pub_subs'
                other == IF C27_OfJournalist(resp') THEN pub_subs ELSE j_subs
                other_after == IF C27_OfJournalist(resp') THEN pub_subs' ELSE j_subs'
            IN  /\ other_after = other
                /\ table_after = table \cup {row}
                /\ resp'.data = "now subscribed" <=> row \notin table
       /\ (C27_Undoes(resp', resp) /\ resp.data = "now subscribed") =>
            LET row == <<C27_Target(resp)[1], resp.user>> IN
            /\ pub_subs' = IF C27_OfJournalist(resp) THEN pub_subs
                           ELSE pub_subs \ {row}
            /\ j_subs' = IF C27_OfJournalist(resp) THEN j_subs \ {row}
                         ELSE j_subs
       /\ (C27_Undoes(resp', resp) /\ resp.data = "already subscribed") =>
            LET row == <<C27_Target(resp)[1], resp.user>> IN
            /\ row \notin pub_subs' \cup j_subs'
            /\ row \in pub_subs \cup j_subs]_vars

\* C27 witness: r1 has unsubscribed from journalist j1; r2's subscription to
\* j1 and r1's own subscriptions to publisher p1 and to journalist j2 are
\* still stored
C27_Witness ==
    /\ area = "registry"
    /\ resp.op = "unsubscribe_journalist_from_article"
    /\ resp.user = "r1"
    /\ resp.data = "unsubscribed"
    /\ pub_subs = {<<"p1", "r1">>}
    /\ j_subs = {<<"j1", "r2">>, <<"j2", "r1">>}

\* The web routes that carry out an action
WebActionOps == {"approve_article", "reject_article"} \cup WebSubscriptionOps

C29_InFeed(u, pk) ==
    /\ IsReader(u)
    /\ \E i \in 1..Len(subscribed_queryset(u)) : subscribed_queryset(u)[i] = pk

C30_NeedsApproval(u, table) ==
    /\ u \in DOMAIN table
    /\ table[u].role \in {S_Journalist, S_Editor}

\* C30: a self-registered account with the role Journalist or Editor is not
\* stored active by any step but the admin's approve action on a selection
\* holding it: when such a row is active after a step, it was active before
\* the step or the step was approve_users with the account selected.  The
\* row form.save() inserts, before the view's second save, is included.
C30_NotActiveBeforeApproval ==
    [][\A u \in AccountIds :
          (C30_NeedsApproval(u, users') /\ users'[u].is_active) =>
              \/ (u \in DOMAIN users /\ users[u].is_active)
              \/ (resp'.op = "approve_users" /\ u \in resp'.data.selected)]_vars

\* C30, the registration request taken as one step: when register has
\* answered, a Reader's row is active and a Journalist's or Editor's row is
\* not; and the admin action makes active the selected inactive accounts
\* and changes no other row
C30_RegisterAndApprove ==
    [][/\ resp'.op = "register" =>
             users'[resp'.user].is_active = (users'[resp'.user].role = S_Reader)
       /\ resp'.op = "approve_users" =>
             /\ DOMAIN users' = DOMAIN users
             /\ \A u \in DOMAIN users :
                   IF u \in resp'.data.selected /\ ~users[u].is_active
                   THEN users'[u] = [users[u] EXCEPT !.is_active = TRUE]
                   ELSE users'[u] = users[u]]_vars

\* C30 state reached: u1 registered as a Journalist, the view made the row
\* inactive, and the admin action on a selection of u1 alone has made it
\* active, the inactive Editor u2 outside the selection staying inactive
C30_Approved ==
    /\ resp.op = "approve_users"
    /\ resp.data.selected = {"u1"}
    /\ resp.data.updated = 1
    /\ DOMAIN users = AccountIds
    /\ users["u1"].role = S_Journalist
    /\ users["u1"].is_active
    /\ users["u2"].role = S_Editor
    /\ ~users["u2"].is_active
    /\ inflight = {}

============================================================================
